---- MODULE Spec2Model ----
(***************************************************************************)
(* Round simulation core of the "Room Escape / Controls Not Included"     *)
(* browser game (full variant: src/unnamed/part_002).                      *)
(*                                                                         *)
(* Lengths are fixed-point: one pixel is Unit model units, so that the     *)
(* fractional quantities of the code (speed multipliers 0.6 / 1.4,         *)
(* obstacle speeds 0.4 .. 0.8 px per frame, the 0.85 decoy scale) are      *)
(* integers.  Times are integer milliseconds.  Math.random() returns       *)
(* r / RandDen for a draw r in 0 .. RandDen-1; every call site takes its   *)
(* draw as a parameter and the actions choose the draws from small sets.   *)
(***************************************************************************)
EXTENDS Integers, Sequences, FiniteSets, TLC

\* ------------------------------------------------------------ resolution
Unit == 10
RandDen == 1000

Px(n) == n * Unit
\* Math.random() * range, for the draw r
Rnd(r, range) == (r * range) \div RandDen

\* ------------------------------------------------------------- bounds
MaxRound == 3
MaxTicks == 2
MaxClockSteps == 2

\* ------------------------------------------------- constants of the code
CANVAS_WIDTH == Px(800)
CANVAS_HEIGHT == Px(600)
ROOM_PADDING_X == Px(40)
ROOM_PADDING_TOP == Px(120)
ROOM_PADDING_BOTTOM == Px(40)
ROOM_LEFT == ROOM_PADDING_X
ROOM_TOP == ROOM_PADDING_TOP
ROOM_WIDTH == CANVAS_WIDTH - ROOM_PADDING_X * 2
ROOM_HEIGHT == CANVAS_HEIGHT - ROOM_PADDING_TOP - ROOM_PADDING_BOTTOM
PLAYER_SIZE == Px(32)
PLAYER_SPEED == Px(4)
DOOR_WIDTH == Px(60)
DOOR_HEIGHT == Px(80)
OBSTACLE_MIN_WIDTH == Px(80)
OBSTACLE_MAX_WIDTH == Px(140)
OBSTACLE_MIN_HEIGHT == Px(80)
OBSTACLE_MAX_HEIGHT == Px(120)
\* 0.4 px per frame, and the 0.4 px of variation
OBSTACLE_BASE_SPEED == (4 * Unit) \div 10
OBSTACLE_SPEED_VARIATION == (4 * Unit) \div 10
\* 0.08 per second, in thousandths
OBSTACLE_TELEPORT_CHANCE_PER_SECOND == 80
AUTO_REVERSE_MIN_MS == 3000
AUTO_REVERSE_MAX_MS == 6000
MIN_SURVIVAL_TIME_MS == 5000
MAX_SURVIVAL_TIME_MS == 10000
ROUND_ADVANCE_DELAY_MS == 1500
OBSTACLE_SPACING == Px(100)
DOOR_MARGIN == Px(50)
FAKE_DOOR_MARGIN == Px(40)
FAKE_DOOR_OBSTACLE_MARGIN == Px(20)
FAKE_DOOR_WIDTH == (DOOR_WIDTH * 85) \div 100
FAKE_DOOR_HEIGHT == (DOOR_HEIGHT * 85) \div 100
START_OFFSET_X == Px(20)
DOOR_OFFSET_X == Px(15)
MAX_OBSTACLES == 10
OBSTACLE_ATTEMPTS == 100
FAKE_DOOR_ATTEMPTS == 80
\* the null timer handle
NULL == 0

RoundRules == <<"none", "flipY", "slowPlayer", "fastPlayer">>
MoveKeys == {"w", "a", "s", "d"}

Min(a, b) == IF a < b THEN a ELSE b
Max(a, b) == IF a > b THEN a ELSE b
Abs(a) == IF a < 0 THEN -a ELSE a

\* ------------------------------------------------------------- geometry
\* the AABB overlap test the code writes out at every collision check
Overlaps(ax, ay, aw, ah, bx, by, bw, bh) ==
    /\ ax + aw > bx
    /\ ax < bx + bw
    /\ ay + ah > by
    /\ ay < by + bh

\* the same test with box b inflated by margin m on every side
OverlapsMargin(ax, ay, aw, ah, bx, by, bw, bh, m) ==
    /\ ax + aw > bx - m
    /\ ax < bx + bw + m
    /\ ay + ah > by - m
    /\ ay < by + bh + m

PlayerOverlaps(px, py, b) ==
    Overlaps(px, py, PLAYER_SIZE, PLAYER_SIZE, b.x, b.y, b.width, b.height)

\* integer quotient rounded toward zero
DivTrunc(a, b) == IF a >= 0 THEN a \div b ELSE -((-a) \div b)

\* multiply by a factor given in thousandths
MulMilli(a, m) == DivTrunc(a * m, 1000)

\* cos and sin (in thousandths) of the angle Math.random() * 2 * PI, for the
\* draw r; the angle is resolved to eighths of a turn
CosTable == <<1000, 707, 0, -707, -1000, -707, 0, 707>>
SinTable == <<0, 707, 1000, 707, 0, -707, -1000, -707>>
Octant(r) == ((r * 8) \div RandDen) + 1
CosMilli(r) == CosTable[Octant(r)]
SinMilli(r) == SinTable[Octant(r)]

\* const speed = OBSTACLE_BASE_SPEED + Math.random() * OBSTACLE_SPEED_VARIATION;
\* vx = cos(angle) * speed, vy = sin(angle) * speed
ObstacleSpeed(r) == OBSTACLE_BASE_SPEED + Rnd(r, OBSTACLE_SPEED_VARIATION)
VelocityX(rSpeed, rAngle) == MulMilli(ObstacleSpeed(rSpeed), CosMilli(rAngle))
VelocityY(rSpeed, rAngle) == MulMilli(ObstacleSpeed(rSpeed), SinMilli(rAngle))

\* --------------------------------------------------------- random timers
GetNextAutoReverseDelay(r) ==
    AUTO_REVERSE_MIN_MS + Rnd(r, AUTO_REVERSE_MAX_MS - AUTO_REVERSE_MIN_MS)

SurvivalTime(r) ==
    MIN_SURVIVAL_TIME_MS + Rnd(r, MAX_SURVIVAL_TIME_MS - MIN_SURVIVAL_TIME_MS)

\* ------------------------------------------------- round-advance timer
\* The browser's timer queue is the set s.timers of pending timeouts
\* [id, due, round]; round is the round in which the timeout was scheduled.
FreshTimerId(timers) ==
    CHOOSE i \in 1..(Cardinality(timers) + 1) : \A t \in timers : t.id # i

ClearPendingRoundTransition(s) ==
    IF s.nextRoundTimeoutId # NULL
    THEN [s EXCEPT !.timers = {t \in @ : t.id # s.nextRoundTimeoutId},
                   !.nextRoundTimeoutId = NULL]
    ELSE s

\* ------------------------------------------------------ room generation
SpawnX == ROOM_LEFT + START_OFFSET_X
SpawnY == ROOM_TOP + (ROOM_HEIGHT - PLAYER_SIZE) \div 2
DoorX == ROOM_LEFT + ROOM_WIDTH - DOOR_WIDTH - DOOR_OFFSET_X
DoorYFor(r) == ROOM_TOP + Rnd(r, ROOM_HEIGHT - DOOR_HEIGHT - Px(40)) + Px(20)

RuleFor(round, r) ==
    IF round = 1 THEN "none"
    ELSE IF round = 2 THEN "none"
    ELSE RoundRules[((r * Len(RoundRules)) \div RandDen) + 1]

\* a multiplier that does not slow the player down
SpeedMultiplierForFastOnly(rule) ==
    IF rule = "fastPlayer" THEN 14 ELSE 10

\* playerSpeedMultiplier, in tenths
SpeedMultiplierFor(rule) ==
    IF rule = "slowPlayer" THEN 6
    ELSE IF rule = "fastPlayer" THEN 14
    ELSE 10

\* the obstacle count without the cap
NumObstaclesUncapped(round) ==
    IF round = 1 THEN 1 ELSE IF round = 2 THEN 2 ELSE 3 + (round - 3)

NumObstacles(round) ==
    LET baseForRound == IF round = 1 THEN 1
                        ELSE IF round = 2 THEN 2
                        ELSE 3 + (round - 3)
    IN  Min(baseForRound, MAX_OBSTACLES)

\* a decoy-portal count that starts in round 1
NumFakeDoorsFromRoundOne(round) ==
    IF round <= 2 THEN 1 ELSE 1 + Min(2, (round - 2) \div 2)

NumFakeDoors(round) ==
    IF round >= 2
    THEN IF round = 2 THEN 1 ELSE 1 + Min(2, (round - 2) \div 2)
    ELSE 0

\* the candidate obstacle of one placement attempt, from its draws
\* a = [w, h, x, y, speed, angle]
Candidate(a) ==
    LET obsW == OBSTACLE_MIN_WIDTH + Rnd(a.w, OBSTACLE_MAX_WIDTH - OBSTACLE_MIN_WIDTH)
        obsH == OBSTACLE_MIN_HEIGHT + Rnd(a.h, OBSTACLE_MAX_HEIGHT - OBSTACLE_MIN_HEIGHT)
    IN  [x |-> ROOM_LEFT + Rnd(a.x, ROOM_WIDTH - obsW),
         y |-> ROOM_TOP + Rnd(a.y, ROOM_HEIGHT - obsH),
         width |-> obsW, height |-> obsH,
         vx |-> VelocityX(a.speed, a.angle),
         vy |-> VelocityY(a.speed, a.angle)]

OverlapsPlayerStart(c, px, py) ==
    OverlapsMargin(c.x, c.y, c.width, c.height,
                   px, py, PLAYER_SIZE, PLAYER_SIZE, OBSTACLE_SPACING)

OverlapsDoor(c, dx, dy) ==
    OverlapsMargin(c.x, c.y, c.width, c.height,
                   dx, dy, DOOR_WIDTH, DOOR_HEIGHT, DOOR_MARGIN)

\* distance < minDistance between the centres, compared as squares:
\* 16 * distance^2 < (4 * minDistance)^2, with doubled centre coordinates
TooClose(c, e) ==
    LET cx1 == 2 * c.x + c.width
        cy1 == 2 * c.y + c.height
        cx2 == 2 * e.x + e.width
        cy2 == 2 * e.y + e.height
        min4 == 4 * OBSTACLE_SPACING + (c.width + c.height) + (e.width + e.height)
    IN  4 * ((cx1 - cx2) * (cx1 - cx2) + (cy1 - cy2) * (cy1 - cy2)) < min4 * min4

\* the spacing test against the most recently placed obstacle only
OverlapsLastObstacle(c, placed) ==
    Len(placed) > 0 /\ TooClose(c, placed[Len(placed)])

OverlapsOtherObstacle(c, placed) ==
    \E k \in 1..Len(placed) : TooClose(c, placed[k])

\* the validity test without the door margin
ObstacleValidIgnoringDoor(c, placed, px, py, dx, dy) ==
    /\ ~OverlapsPlayerStart(c, px, py)
    /\ ~OverlapsOtherObstacle(c, placed)

ObstacleValid(c, placed, px, py, dx, dy) ==
    /\ ~OverlapsPlayerStart(c, px, py)
    /\ ~OverlapsDoor(c, dx, dy)
    /\ ~OverlapsOtherObstacle(c, placed)

\* the rejection loop without the cap on the number of attempts
FirstValidUncapped(att, placed, px, py, dx, dy) ==
    LET ok == {k \in 1..Len(att) :
                  ObstacleValid(Candidate(att[k]), placed, px, py, dx, dy)}
    IN  IF ok = {} THEN 0 ELSE CHOOSE k \in ok : \A j \in ok : k <= j

\* The rejection loop of one obstacle.  att is the sequence of draws of the
\* attempts; a stream shorter than the attempt budget repeats its last
\* element.  The result is the number of attempts made and the candidate
\* placed (valid) or none.
FirstValid(att, placed, px, py, dx, dy) ==
    LET n == Min(Len(att), OBSTACLE_ATTEMPTS)
        ok == {k \in 1..n : ObstacleValid(Candidate(att[k]), placed, px, py, dx, dy)}
    IN  IF ok = {} THEN 0 ELSE CHOOSE k \in ok : \A j \in ok : k <= j

RECURSIVE PlaceObstacles(_, _, _, _, _, _, _)
\* the for loop over the obstacles i..n; draws[i] is the attempt stream of i
PlaceObstacles(i, n, draws, placed, px, py, dy) ==
    IF i > n THEN placed
    ELSE LET k == FirstValid(draws[i], placed, px, py, DoorX, dy)
         IN  PlaceObstacles(i + 1, n, draws,
                 IF k # 0 THEN Append(placed, Candidate(draws[i][k])) ELSE placed,
                 px, py, dy)

\* the candidate decoy portal of one attempt, a = [x, y]
FakeCandidate(a) ==
    [x |-> ROOM_LEFT + ROOM_WIDTH \div 2
              + Rnd(a.x, ROOM_WIDTH \div 2 - FAKE_DOOR_WIDTH - FAKE_DOOR_MARGIN),
     y |-> ROOM_TOP + Rnd(a.y, ROOM_HEIGHT - FAKE_DOOR_HEIGHT - FAKE_DOOR_MARGIN),
     width |-> FAKE_DOOR_WIDTH, height |-> FAKE_DOOR_HEIGHT]

\* the portal validity test without the door margin
FakeDoorValidIgnoringDoor(f, obs, dx, dy) ==
    ~\E k \in 1..Len(obs) :
        OverlapsMargin(f.x, f.y, f.width, f.height,
                       obs[k].x, obs[k].y, obs[k].width, obs[k].height,
                       FAKE_DOOR_OBSTACLE_MARGIN)

\* the portal validity test without the obstacle margin
FakeDoorValidIgnoringObstacles(f, obs, dx, dy) ==
    ~OverlapsMargin(f.x, f.y, f.width, f.height,
                    dx, dy, DOOR_WIDTH, DOOR_HEIGHT, FAKE_DOOR_MARGIN)

FakeDoorValid(f, obs, dx, dy) ==
    /\ ~OverlapsMargin(f.x, f.y, f.width, f.height,
                       dx, dy, DOOR_WIDTH, DOOR_HEIGHT, FAKE_DOOR_MARGIN)
    /\ ~\E k \in 1..Len(obs) :
          OverlapsMargin(f.x, f.y, f.width, f.height,
                         obs[k].x, obs[k].y, obs[k].width, obs[k].height,
                         FAKE_DOOR_OBSTACLE_MARGIN)

FirstValidFake(att, obs, dx, dy) ==
    LET n == Min(Len(att), FAKE_DOOR_ATTEMPTS)
        ok == {k \in 1..n : FakeDoorValid(FakeCandidate(att[k]), obs, dx, dy)}
    IN  IF ok = {} THEN 0 ELSE CHOOSE k \in ok : \A j \in ok : k <= j

EffectFor(r) == IF 2 * r < RandDen THEN "teleport" ELSE "shield"

RECURSIVE PlaceFakeDoors(_, _, _, _, _, _)
\* draws[i] = [att: the attempt stream, effect: the effect draw]
PlaceFakeDoors(i, n, draws, placed, obs, dy) ==
    IF i > n THEN placed
    ELSE LET k == FirstValidFake(draws[i].att, obs, DoorX, dy)
             f == FakeCandidate(draws[i].att[k])
         IN  PlaceFakeDoors(i + 1, n, draws,
                 IF k # 0
                 THEN Append(placed, [x |-> f.x, y |-> f.y, width |-> f.width,
                                      height |-> f.height,
                                      effect |-> EffectFor(draws[i].effect)])
                 ELSE placed,
                 obs, dy)

\* generateRandomRoom without the reset of the shield
GenerateRandomRoomKeepingShield(s, t, d) ==
    LET c == ClearPendingRoundTransition(s)
        rule == RuleFor(c.currentRound, d.rule)
        dy == DoorYFor(d.doorY)
        obs == PlaceObstacles(1, NumObstacles(c.currentRound), d.obstacles,
                              <<>>, SpawnX, SpawnY, dy)
    IN  [c EXCEPT
           !.gameWon = FALSE,
           !.gameLost = FALSE,
           !.doorUnlocked = FALSE,
           !.reversedControls = FALSE,
           !.paused = FALSE,
           !.pauseStartTime = 0,
           !.roundStartTime = t,
           !.requiredSurvivalTime = SurvivalTime(d.survival),
           !.lastAutoReverseTime = t,
           !.nextAutoReverseDelay = GetNextAutoReverseDelay(d.delay),
           !.currentRoundRule = rule,
           !.playerSpeedMultiplier = SpeedMultiplierFor(rule),
           !.playerX = SpawnX,
           !.playerY = SpawnY,
           !.playerStartX = SpawnX,
           !.playerStartY = SpawnY,
           !.doorX = DoorX,
           !.doorY = dy,
           !.obstacles = obs,
           !.fakeDoors = PlaceFakeDoors(1, NumFakeDoors(c.currentRound),
                                        d.fakeDoors, <<>>, obs, dy)]

\* generateRandomRoom() at time t with the draws
\* d = [survival, delay, rule, doorY, obstacles, fakeDoors]
GenerateRandomRoom(s, t, d) ==
    LET c == ClearPendingRoundTransition(s)
        rule == RuleFor(c.currentRound, d.rule)
        dy == DoorYFor(d.doorY)
        obs == PlaceObstacles(1, NumObstacles(c.currentRound), d.obstacles,
                              <<>>, SpawnX, SpawnY, dy)
    IN  [c EXCEPT
           !.gameWon = FALSE,
           !.gameLost = FALSE,
           !.doorUnlocked = FALSE,
           !.reversedControls = FALSE,
           !.shieldActive = FALSE,
           !.paused = FALSE,
           !.pauseStartTime = 0,
           !.roundStartTime = t,
           !.requiredSurvivalTime = SurvivalTime(d.survival),
           !.lastAutoReverseTime = t,
           !.nextAutoReverseDelay = GetNextAutoReverseDelay(d.delay),
           !.currentRoundRule = rule,
           !.playerSpeedMultiplier = SpeedMultiplierFor(rule),
           !.playerX = SpawnX,
           !.playerY = SpawnY,
           !.playerStartX = SpawnX,
           !.playerStartY = SpawnY,
           !.doorX = DoorX,
           !.doorY = dy,
           !.obstacles = obs,
           !.fakeDoors = PlaceFakeDoors(1, NumFakeDoors(c.currentRound),
                                        d.fakeDoors, <<>>, obs, dy)]

\* ------------------------------------------------------- per-frame steps
\* updateAutoReverse that fires without recording the time of the reversal
UpdateAutoReverseNotRecorded(s, t, r) ==
    IF s.paused \/ s.gameWon \/ s.gameLost THEN s
    ELSE IF t - s.lastAutoReverseTime >= s.nextAutoReverseDelay
         THEN [s EXCEPT !.reversedControls = ~@,
                        !.cues = Append(@, "reverse"),
                        !.nextAutoReverseDelay = GetNextAutoReverseDelay(r)]
         ELSE s

\* updateAutoReverse that keeps the delay of the reversal that just fired
UpdateAutoReverseKeepingDelay(s, t, r) ==
    IF s.paused \/ s.gameWon \/ s.gameLost THEN s
    ELSE IF t - s.lastAutoReverseTime >= s.nextAutoReverseDelay
         THEN [s EXCEPT !.reversedControls = ~@,
                        !.cues = Append(@, "reverse"),
                        !.lastAutoReverseTime = t]
         ELSE s

\* updateAutoReverse() at time t; r is the draw of the next delay
UpdateAutoReverse(s, t, r) ==
    IF s.paused \/ s.gameWon \/ s.gameLost THEN s
    ELSE IF t - s.lastAutoReverseTime >= s.nextAutoReverseDelay
         THEN [s EXCEPT !.reversedControls = ~@,
                        !.cues = Append(@, "reverse"),
                        !.lastAutoReverseTime = t,
                        !.nextAutoReverseDelay = GetNextAutoReverseDelay(r)]
         ELSE s

\* checkSurvivalTime that measures from time 0 instead of roundStartTime
CheckSurvivalTimeUncompensated(s, t) ==
    IF s.paused \/ s.doorUnlocked \/ s.gameLost \/ s.gameWon THEN s
    ELSE IF t >= s.requiredSurvivalTime
         THEN [s EXCEPT !.doorUnlocked = TRUE]
         ELSE s

\* checkSurvivalTime that does not unlock while the controls are reversed
CheckSurvivalTimeUnlessReversed(s, t) ==
    IF s.paused \/ s.doorUnlocked \/ s.gameLost \/ s.gameWon THEN s
    ELSE IF t - s.roundStartTime >= s.requiredSurvivalTime /\ ~s.reversedControls
         THEN [s EXCEPT !.doorUnlocked = TRUE]
         ELSE s

\* checkSurvivalTime() at time t
CheckSurvivalTime(s, t) ==
    IF s.paused \/ s.doorUnlocked \/ s.gameLost \/ s.gameWon THEN s
    ELSE IF t - s.roundStartTime >= s.requiredSurvivalTime
         THEN [s EXCEPT !.doorUnlocked = TRUE]
         ELSE s

\* PLAYER_SPEED * playerSpeedMultiplier (the multiplier is in tenths)
EffectiveSpeed(s) == (PLAYER_SPEED * s.playerSpeedMultiplier) \div 10

\* the horizontal displacement that ignores the reversed-controls flag
DxUnreversed(k, reversed, speed) ==
    (IF k["d"] THEN speed ELSE 0) - (IF k["a"] THEN speed ELSE 0)

\* the displacement of one frame for the held keys k
Dx(k, reversed, speed) ==
    IF reversed
    THEN (IF k["a"] THEN speed ELSE 0) - (IF k["d"] THEN speed ELSE 0)
    ELSE (IF k["d"] THEN speed ELSE 0) - (IF k["a"] THEN speed ELSE 0)

Dy(k, reversed, speed) ==
    IF reversed
    THEN (IF k["w"] THEN speed ELSE 0) - (IF k["s"] THEN speed ELSE 0)
    ELSE (IF k["s"] THEN speed ELSE 0) - (IF k["w"] THEN speed ELSE 0)

\* a clamp that has lost its upper limit
ClampLowOnly(lo, hi, v) == Max(lo, v)

Clamp(lo, hi, v) == Max(lo, Min(hi, v))

\* updatePlayer()
UpdatePlayer(s) ==
    IF s.paused \/ s.gameWon \/ s.gameLost THEN s
    ELSE LET speed == EffectiveSpeed(s)
         IN  [s EXCEPT
                !.playerX = Clamp(ROOM_LEFT, ROOM_LEFT + ROOM_WIDTH - PLAYER_SIZE,
                                  @ + Dx(s.keys, s.reversedControls, speed)),
                !.playerY = Clamp(ROOM_TOP, ROOM_TOP + ROOM_HEIGHT - PLAYER_SIZE,
                                  @ + Dy(s.keys, s.reversedControls, speed))]

\* v * wobbleStrength * sin(zigzagPhase): wobbleStrength is 0.3 and the sine
\* is given in thousandths.  The phase itself is not kept: the sine of the
\* frame is a draw, which covers every phase the obstacle can have.
Wobble(v, sinMilli) == DivTrunc(v * 300 * sinMilli, 1000 * 1000)

\* Math.random() < OBSTACLE_TELEPORT_CHANCE_PER_SECOND * dt, with dt = 1/60
TeleportsThisFrame(r) == r * 1000 * 60 < OBSTACLE_TELEPORT_CHANCE_PER_SECOND * RandDen

\* one obstacle of updateObstaclesMovement(); m = [sin, tele, x, y, speed, angle]
MoveObstacle(o, m) ==
    LET x1 == o.x + o.vx + Wobble(-o.vy, m.sin)
        y1 == o.y + o.vy + Wobble(o.vx, m.sin)
        minX == ROOM_LEFT
        minY == ROOM_TOP
        maxX == ROOM_LEFT + ROOM_WIDTH - o.width
        maxY == ROOM_TOP + ROOM_HEIGHT - o.height
        x2 == IF x1 < minX THEN minX ELSE IF x1 > maxX THEN maxX ELSE x1
        vx2 == IF x1 < minX THEN Abs(o.vx) ELSE IF x1 > maxX THEN -Abs(o.vx) ELSE o.vx
        y2 == IF y1 < minY THEN minY ELSE IF y1 > maxY THEN maxY ELSE y1
        vy2 == IF y1 < minY THEN Abs(o.vy) ELSE IF y1 > maxY THEN -Abs(o.vy) ELSE o.vy
    IN  IF TeleportsThisFrame(m.tele)
        THEN [o EXCEPT !.x = ROOM_LEFT + Rnd(m.x, ROOM_WIDTH - o.width),
                       !.y = ROOM_TOP + Rnd(m.y, ROOM_HEIGHT - o.height),
                       !.vx = VelocityX(m.speed, m.angle),
                       !.vy = VelocityY(m.speed, m.angle)]
        ELSE [o EXCEPT !.x = x2, !.y = y2, !.vx = vx2, !.vy = vy2]

\* updateObstaclesMovement(); md[i] holds the draws of obstacle i
UpdateObstaclesMovement(s, md) ==
    IF s.paused \/ s.gameWon \/ s.gameLost THEN s
    ELSE [s EXCEPT !.obstacles =
             [i \in 1..Len(s.obstacles) |-> MoveObstacle(s.obstacles[i], md[i])]]

\* index of the first box of seq that the player overlaps, 0 if none
FirstOverlap(s, seq) ==
    LET hit == {i \in 1..Len(seq) : PlayerOverlaps(s.playerX, s.playerY, seq[i])}
    IN  IF hit = {} THEN 0 ELSE CHOOSE i \in hit : \A j \in hit : i <= j

\* obstacles.splice(i, 1)
Splice(seq, i) == SubSeq(seq, 1, i - 1) \o SubSeq(seq, i + 1, Len(seq))

\* checkObstacleCollision() that also removes the obstacle that kills
CheckObstacleCollisionRemoving(s) ==
    IF s.paused \/ s.gameLost \/ s.gameWon THEN s
    ELSE LET i == FirstOverlap(s, s.obstacles)
         IN  IF i = 0 THEN s
             ELSE IF s.shieldActive
                  THEN [s EXCEPT !.obstacles = Splice(@, i),
                                 !.shieldActive = FALSE,
                                 !.cues = Append(@, "shieldOff")]
                  ELSE [s EXCEPT !.obstacles = Splice(@, i),
                                 !.gameLost = TRUE]

\* checkObstacleCollision() whose shield removes every obstacle it touches
CheckObstacleCollisionSweeping(s) ==
    IF s.paused \/ s.gameLost \/ s.gameWon THEN s
    ELSE LET i == FirstOverlap(s, s.obstacles)
         IN  IF i = 0 THEN s
             ELSE IF s.shieldActive
                  THEN [s EXCEPT !.obstacles = SelectSeq(@, LAMBDA o :
                                     ~PlayerOverlaps(s.playerX, s.playerY, o)),
                                 !.shieldActive = FALSE,
                                 !.cues = Append(@, "shieldOff")]
                  ELSE [s EXCEPT !.gameLost = TRUE]

\* checkObstacleCollision()
CheckObstacleCollision(s) ==
    IF s.paused \/ s.gameLost \/ s.gameWon THEN s
    ELSE LET i == FirstOverlap(s, s.obstacles)
         IN  IF i = 0 THEN s
             ELSE IF s.shieldActive
                  THEN [s EXCEPT !.obstacles = Splice(@, i),
                                 !.shieldActive = FALSE,
                                 !.cues = Append(@, "shieldOff")]
                  ELSE [s EXCEPT !.gameLost = TRUE]

\* checkFakeDoorCollision() that plays the shield sound only when the shield
\* was not active yet
CheckFakeDoorCollisionCueOnChange(s) ==
    IF s.paused \/ s.gameWon \/ s.gameLost THEN s
    ELSE LET i == FirstOverlap(s, s.fakeDoors)
         IN  IF i = 0 THEN s
             ELSE IF s.fakeDoors[i].effect = "shield"
                  THEN IF s.shieldActive THEN s
                       ELSE [s EXCEPT !.shieldActive = TRUE,
                                      !.cues = Append(@, "shieldOn")]
                  ELSE [s EXCEPT !.playerX = s.playerStartX,
                                 !.playerY = s.playerStartY]

\* checkFakeDoorCollision() that removes the portal the player touched
CheckFakeDoorCollisionConsuming(s) ==
    IF s.paused \/ s.gameWon \/ s.gameLost THEN s
    ELSE LET i == FirstOverlap(s, s.fakeDoors)
         IN  IF i = 0 THEN s
             ELSE IF s.fakeDoors[i].effect = "shield"
                  THEN [s EXCEPT !.shieldActive = TRUE,
                                 !.cues = Append(@, "shieldOn"),
                                 !.fakeDoors = Splice(@, i)]
                  ELSE [s EXCEPT !.playerX = s.playerStartX,
                                 !.playerY = s.playerStartY,
                                 !.fakeDoors = Splice(@, i)]

\* checkFakeDoorCollision() without the gameLost test
CheckFakeDoorCollisionAfterLoss(s) ==
    IF s.paused \/ s.gameWon THEN s
    ELSE LET i == FirstOverlap(s, s.fakeDoors)
         IN  IF i = 0 THEN s
             ELSE IF s.fakeDoors[i].effect = "shield"
                  THEN [s EXCEPT !.shieldActive = TRUE,
                                 !.cues = Append(@, "shieldOn")]
                  ELSE [s EXCEPT !.playerX = s.playerStartX,
                                 !.playerY = s.playerStartY]

\* checkFakeDoorCollision()
CheckFakeDoorCollision(s) ==
    IF s.paused \/ s.gameWon \/ s.gameLost THEN s
    ELSE LET i == FirstOverlap(s, s.fakeDoors)
         IN  IF i = 0 THEN s
             ELSE IF s.fakeDoors[i].effect = "shield"
                  THEN [s EXCEPT !.shieldActive = TRUE,
                                 !.cues = Append(@, "shieldOn")]
                  ELSE [s EXCEPT !.playerX = s.playerStartX,
                                 !.playerY = s.playerStartY]

PlayerAtDoor(s) ==
    Overlaps(s.playerX, s.playerY, PLAYER_SIZE, PLAYER_SIZE,
             s.doorX, s.doorY, DOOR_WIDTH, DOOR_HEIGHT)

\* nothing is handed to setTimeout
ScheduleAdvanceDropped(s, t) == s

\* nextRoundTimeoutId = setTimeout(..., 1500) at time t
ScheduleAdvance(s, t) ==
    LET id == FreshTimerId(s.timers)
    IN  [s EXCEPT !.timers = @ \cup {[id |-> id, due |-> t + ROUND_ADVANCE_DELAY_MS,
                                      round |-> s.currentRound]},
                  !.nextRoundTimeoutId = id]

\* checkDoorCollision() without the !doorUnlocked test
CheckDoorCollisionUngated(s, t) ==
    IF s.paused \/ s.gameWon \/ s.gameLost THEN s
    ELSE IF PlayerAtDoor(s)
         THEN ScheduleAdvance(
                  ClearPendingRoundTransition([s EXCEPT !.gameWon = TRUE]), t)
         ELSE s

\* checkDoorCollision() without the gameLost test
CheckDoorCollisionAfterLoss(s, t) ==
    IF s.paused \/ s.gameWon \/ ~s.doorUnlocked THEN s
    ELSE IF PlayerAtDoor(s)
         THEN ScheduleAdvance(
                  ClearPendingRoundTransition([s EXCEPT !.gameWon = TRUE]), t)
         ELSE s

\* checkDoorCollision() at time t
CheckDoorCollision(s, t) ==
    IF s.paused \/ s.gameWon \/ s.gameLost \/ ~s.doorUnlocked THEN s
    ELSE IF PlayerAtDoor(s)
         THEN ScheduleAdvance(
                  ClearPendingRoundTransition([s EXCEPT !.gameWon = TRUE]), t)
         ELSE s

\* the state at the obstacle check of a frame: the steps of gameLoop before
\* checkObstacleCollision
BeforeObstacleCheck(s, t, r, md) ==
    UpdateObstaclesMovement(
      UpdatePlayer(
        CheckSurvivalTime(
          UpdateAutoReverse(s, t, r), t)), md)

\* the state at the door check of a frame: the steps before checkDoorCollision
BeforeDoorCheck(s, t, r, md) ==
    CheckFakeDoorCollision(
      CheckObstacleCollision(BeforeObstacleCheck(s, t, r, md)))

\* gameLoop with the door check moved to the front of the frame
GameLoopDoorCheckFirst(s, t, r, md) ==
    IF ~s.paused
    THEN CheckFakeDoorCollision(
           CheckObstacleCollision(
             BeforeObstacleCheck(CheckDoorCollision(s, t), t, r, md)))
    ELSE s

\* gameLoop with the portal check before the obstacle check
GameLoopPortalCheckFirst(s, t, r, md) ==
    IF ~s.paused
    THEN CheckDoorCollision(
           CheckObstacleCollision(
             CheckFakeDoorCollision(BeforeObstacleCheck(s, t, r, md))), t)
    ELSE s

\* the gameplay part of gameLoop() at time t
GameLoop(s, t, r, md) ==
    IF ~s.paused
    THEN CheckDoorCollision(BeforeDoorCheck(s, t, r, md), t)
    ELSE s

\* ------------------------------------------------------------------ state
VARIABLES
    currentRound, playerX, playerY, doorX, doorY, obstacles, fakeDoors,
    playerStartX, playerStartY, reversedControls, gameWon, gameLost,
    doorUnlocked, shieldActive, paused, pauseStartTime, roundStartTime,
    requiredSurvivalTime, lastAutoReverseTime, nextAutoReverseDelay,
    currentRoundRule, playerSpeedMultiplier, keys, nextRoundTimeoutId,
    timers,   \* the browser's pending timeouts
    now,      \* performance.now()
    frames,   \* frames simulated since the room was generated
    pauseMark, \* what the timers showed when the pause in progress began
    pressed,   \* the movement keys that are physically down
    sprites,        \* the five images: "loading", "loaded" or "failed"
    spritesLoaded,  \* the counter of onSpriteLoad()
    pendingFrames   \* requestAnimationFrame callbacks of gameLoop not yet run

vars == <<currentRound, playerX, playerY, doorX, doorY, obstacles, fakeDoors,
          playerStartX, playerStartY, reversedControls, gameWon, gameLost,
          doorUnlocked, shieldActive, paused, pauseStartTime, roundStartTime,
          requiredSurvivalTime, lastAutoReverseTime, nextAutoReverseDelay,
          currentRoundRule, playerSpeedMultiplier, keys, nextRoundTimeoutId,
          timers, now, frames, pauseMark, pressed, sprites, spritesLoaded,
          pendingFrames>>

\* the variables of the script
gameplay == <<currentRound, playerX, playerY, doorX, doorY, obstacles, fakeDoors,
              playerStartX, playerStartY, reversedControls, gameWon, gameLost,
              doorUnlocked, shieldActive, paused, pauseStartTime, roundStartTime,
              requiredSurvivalTime, lastAutoReverseTime, nextAutoReverseDelay,
              currentRoundRule, playerSpeedMultiplier, keys, nextRoundTimeoutId>>

\* the program state as one record; cues collects the audio cues that the
\* step plays (playReverseToggleSound, playShieldSound)
St ==
    [currentRound |-> currentRound, playerX |-> playerX, playerY |-> playerY,
     doorX |-> doorX, doorY |-> doorY, obstacles |-> obstacles,
     fakeDoors |-> fakeDoors, playerStartX |-> playerStartX,
     playerStartY |-> playerStartY, reversedControls |-> reversedControls,
     gameWon |-> gameWon, gameLost |-> gameLost, doorUnlocked |-> doorUnlocked,
     shieldActive |-> shieldActive, paused |-> paused,
     pauseStartTime |-> pauseStartTime, roundStartTime |-> roundStartTime,
     requiredSurvivalTime |-> requiredSurvivalTime,
     lastAutoReverseTime |-> lastAutoReverseTime,
     nextAutoReverseDelay |-> nextAutoReverseDelay,
     currentRoundRule |-> currentRoundRule,
     playerSpeedMultiplier |-> playerSpeedMultiplier, keys |-> keys,
     nextRoundTimeoutId |-> nextRoundTimeoutId, timers |-> timers,
     cues |-> <<>>]

\* the sprite images, all in the same state
Sprites(status) ==
    [n \in {"player", "door", "floor", "wall", "obstacle"} |-> status]

\* the module-level declarations of the script, before initGame() runs
Declared ==
    [currentRound |-> 1, playerX |-> 0, playerY |-> 0, doorX |-> 0, doorY |-> 0,
     obstacles |-> <<>>, fakeDoors |-> <<>>, playerStartX |-> 0,
     playerStartY |-> 0, reversedControls |-> FALSE, gameWon |-> FALSE,
     gameLost |-> FALSE, doorUnlocked |-> FALSE, shieldActive |-> FALSE,
     paused |-> FALSE, pauseStartTime |-> 0, roundStartTime |-> 0,
     requiredSurvivalTime |-> MIN_SURVIVAL_TIME_MS,
     lastAutoReverseTime |-> 0, nextAutoReverseDelay |-> AUTO_REVERSE_MIN_MS,
     currentRoundRule |-> "none", playerSpeedMultiplier |-> 10,
     keys |-> [k \in MoveKeys |-> FALSE], nextRoundTimeoutId |-> NULL,
     timers |-> {}, cues |-> <<>>]

\* the variables take the fields of s (s is evaluated once)
Becomes(s) ==
    \E v \in {s} :
        /\ currentRound' = v.currentRound
        /\ playerX' = v.playerX
        /\ playerY' = v.playerY
        /\ doorX' = v.doorX
        /\ doorY' = v.doorY
        /\ obstacles' = v.obstacles
        /\ fakeDoors' = v.fakeDoors
        /\ playerStartX' = v.playerStartX
        /\ playerStartY' = v.playerStartY
        /\ reversedControls' = v.reversedControls
        /\ gameWon' = v.gameWon
        /\ gameLost' = v.gameLost
        /\ doorUnlocked' = v.doorUnlocked
        /\ shieldActive' = v.shieldActive
        /\ paused' = v.paused
        /\ pauseStartTime' = v.pauseStartTime
        /\ roundStartTime' = v.roundStartTime
        /\ requiredSurvivalTime' = v.requiredSurvivalTime
        /\ lastAutoReverseTime' = v.lastAutoReverseTime
        /\ nextAutoReverseDelay' = v.nextAutoReverseDelay
        /\ currentRoundRule' = v.currentRoundRule
        /\ playerSpeedMultiplier' = v.playerSpeedMultiplier
        /\ keys' = v.keys
        /\ nextRoundTimeoutId' = v.nextRoundTimeoutId
        /\ timers' = v.timers

\* ------------------------------------------------------------- keyboard
\* the ESC branch without the !gameWon && !gameLost test
TogglePauseAnyState(s, t) ==
    IF ~s.paused
    THEN [s EXCEPT !.paused = TRUE, !.pauseStartTime = t]
    ELSE LET pausedDuration == t - s.pauseStartTime
         IN  [s EXCEPT !.roundStartTime = @ + pausedDuration,
                       !.lastAutoReverseTime = @ + pausedDuration,
                       !.paused = FALSE,
                       !.pauseStartTime = 0]

\* the ESC branch that shifts roundStartTime only
TogglePauseRoundStartOnly(s, t) ==
    IF ~s.gameWon /\ ~s.gameLost
    THEN IF ~s.paused
         THEN [s EXCEPT !.paused = TRUE, !.pauseStartTime = t]
         ELSE LET pausedDuration == t - s.pauseStartTime
              IN  [s EXCEPT !.roundStartTime = @ + pausedDuration,
                            !.paused = FALSE,
                            !.pauseStartTime = 0]
    ELSE s

\* the ESC branch of handleKeyDown at time t
TogglePause(s, t) ==
    IF ~s.gameWon /\ ~s.gameLost
    THEN IF ~s.paused
         THEN [s EXCEPT !.paused = TRUE, !.pauseStartTime = t]
         ELSE LET pausedDuration == t - s.pauseStartTime
              IN  [s EXCEPT !.roundStartTime = @ + pausedDuration,
                            !.lastAutoReverseTime = @ + pausedDuration,
                            !.paused = FALSE,
                            !.pauseStartTime = 0]
    ELSE s

\* the R branch that restarts in every state
RestartOrReverseInAnyState(s, t, gd) ==
    GenerateRandomRoom(
        [ClearPendingRoundTransition(s) EXCEPT !.currentRound = 1], t, gd)

\* the R branch whose manual reversal also restarts the auto-reverse timer
RestartOrReverseResettingTimer(s, t, gd) ==
    IF s.gameLost
    THEN GenerateRandomRoom(
             [ClearPendingRoundTransition(s) EXCEPT !.currentRound = 1], t, gd)
    ELSE [s EXCEPT !.reversedControls = ~@,
                   !.cues = Append(@, "reverse"),
                   !.lastAutoReverseTime = t]

\* the R branch of handleKeyDown at time t
RestartOrReverse(s, t, gd) ==
    IF s.gameLost
    THEN GenerateRandomRoom(
             [ClearPendingRoundTransition(s) EXCEPT !.currentRound = 1], t, gd)
    ELSE [s EXCEPT !.reversedControls = ~@,
                   !.cues = Append(@, "reverse")]

\* handleKeyDown without the paused test before the R and movement keys
HandleKeyDownWhilePaused(s, t, key, repeat, gd) ==
    IF repeat THEN s
    ELSE IF key = "escape" THEN TogglePause(s, t)
    ELSE IF key = "r" THEN RestartOrReverse(s, t, gd)
    ELSE IF key \in MoveKeys THEN [s EXCEPT !.keys[key] = TRUE]
    ELSE s

\* handleKeyDown without the e.repeat test
HandleKeyDownRepeating(s, t, key, repeat, gd) ==
    IF key = "escape" THEN TogglePause(s, t)
    ELSE IF s.paused THEN s
    ELSE IF key = "r" THEN RestartOrReverse(s, t, gd)
    ELSE IF key \in MoveKeys THEN [s EXCEPT !.keys[key] = TRUE]
    ELSE s

\* handleKeyDown(e) at time t; gd holds the draws of a restart's generation
HandleKeyDown(s, t, key, repeat, gd) ==
    IF repeat THEN s
    ELSE IF key = "escape" THEN TogglePause(s, t)
    ELSE IF s.paused THEN s
    ELSE IF key = "r" THEN RestartOrReverse(s, t, gd)
    ELSE IF key \in MoveKeys THEN [s EXCEPT !.keys[key] = TRUE]
    ELSE s

\* handleKeyUp(e)
HandleKeyUp(s, key) ==
    IF s.paused THEN s
    ELSE IF key \in MoveKeys THEN [s EXCEPT !.keys[key] = FALSE]
    ELSE s

\* the callback without currentRound++
AdvanceRoundSameIndex(s, t, gd) ==
    GenerateRandomRoom([s EXCEPT !.nextRoundTimeoutId = NULL], t, gd)

\* the body of the setTimeout callback of checkDoorCollision, at time t
AdvanceRound(s, t, gd) ==
    GenerateRandomRoom(
        [s EXCEPT !.nextRoundTimeoutId = NULL, !.currentRound = @ + 1], t, gd)

\* a timer that stays in the queue when it fires, as one set by setInterval
TimersAfterFireKept(tms, tm) == tms

\* a timeout that fires leaves the browser's queue
TimersAfterFire(tms, tm) == tms \ {tm}

\* ------------------------------------------------ what the renderer reads
\* drawUI: requiredSurvivalTime - elapsed, not below 0 (in ms)
RemainingToUnlock(s, t) ==
    Max(0, s.requiredSurvivalTime - (t - s.roundStartTime))

\* the time left until updateAutoReverse fires
RemainingToAutoReverse(s, t) ==
    s.nextAutoReverseDelay - (t - s.lastAutoReverseTime)

\* ------------------------------------------------ record of the last pause
\* phase is "paused" from the step that enters a pause, "resumed" in the
\* state that the resuming step produces, and "none" otherwise; unlock and
\* auto are the remaining times read when the pause began, at time at, and
\* roundStart and lastAuto the two timestamps at that time.
NoMark == [phase |-> "none", unlock |-> 0, auto |-> 0, at |-> 0,
           roundStart |-> 0, lastAuto |-> 0]

Marked ==
    pauseMark' =
        IF paused'
        THEN IF paused THEN pauseMark
             ELSE [phase |-> "paused",
                   unlock |-> requiredSurvivalTime - (now - roundStartTime),
                   auto |-> RemainingToAutoReverse(St, now),
                   at |-> now,
                   roundStart |-> roundStartTime,
                   lastAuto |-> lastAutoReverseTime]
        ELSE IF paused THEN [pauseMark EXCEPT !.phase = "resumed"]
             ELSE NoMark

\* ------------------------------------------------------- draws of the run
ClockStep == MIN_SURVIVAL_TIME_MS
InputKeys == {"d", "r", "escape"}
SurvivalDraws == {0, 500}
DelayDraws == {0, 999}
DoorDraws == {500}
RuleDraws(round) == IF round <= 2 THEN {0} ELSE {0, 250, 500, 750}

ObsA == [w |-> 0, h |-> 0, x |-> 500, y |-> 0, speed |-> 0, angle |-> 0]
ObsB == [w |-> 999, h |-> 0, x |-> 500, y |-> 900, speed |-> 500, angle |-> 250]
ObsAtSpawn == [w |-> 0, h |-> 0, x |-> 0, y |-> 500, speed |-> 0, angle |-> 500]
StreamA == <<ObsA>>
StreamB == <<ObsAtSpawn, ObsB>>

\* the attempt streams of the n obstacles of a room: alternating, or all alike
ObstacleDraws(n) ==
    {[i \in 1..n |-> IF i % 2 = 1 THEN StreamA ELSE StreamB],
     [i \in 1..n |-> IF i % 2 = 1 THEN StreamB ELSE StreamA],
     [i \in 1..n |-> StreamA]}

FakeF == [x |-> 700, y |-> 500]
FakeAtDoor == [x |-> 999, y |-> 500]
FakeStreams ==
    {[att |-> <<FakeF>>, effect |-> 0],
     [att |-> <<FakeAtDoor, FakeF>>, effect |-> 500]}

\* the draws of one generateRandomRoom(): the survival time and the first
\* auto-reverse delay are drawn both short or both long
GenDraws(round) ==
    {gd \in [survival : SurvivalDraws, delay : DelayDraws, rule : RuleDraws(round),
             doorY : DoorDraws,
             obstacles : ObstacleDraws(NumObstacles(round)),
             fakeDoors : [1..NumFakeDoors(round) -> FakeStreams]] :
        (gd.survival = 0) <=> (gd.delay = 0)}

Drift(sn) == [sin |-> sn, tele |-> 500, x |-> 0, y |-> 0, speed |-> 0, angle |-> 0]
Jump(rx, ry) == [sin |-> 0, tele |-> 0, x |-> rx, y |-> ry, speed |-> 500, angle |-> 625]
MoveDraws == {Drift(1000), Jump(860, 500)}

\* points of the grid that updatePlayer reaches from the spawn point: one
\* step before the decoy portal, and one step before the door
BeforePortal == <<SpawnX + 124 * PLAYER_SPEED, SpawnY>>
BeforeDoor == <<SpawnX + 148 * PLAYER_SPEED, SpawnY>>

\* the rounds and player positions a run starts from; with shield the
\* player has walked through a shield portal on the way
Starts ==
    {[round |-> 1, pos |-> <<SpawnX, SpawnY>>, shield |-> FALSE],
     [round |-> 1, pos |-> BeforeDoor, shield |-> FALSE],
     [round |-> 2, pos |-> BeforePortal, shield |-> FALSE],
     [round |-> 2, pos |-> BeforeDoor, shield |-> TRUE]}

\* ------------------------------------------------------------------ Init
\* initGame(): round 1 is generated at the spawn point.  A run may also start
\* later in the game: in round 2, and with the player where updatePlayer can
\* have taken it, as long as no frame would already have reacted to the
\* position (no obstacle or decoy portal is touched; the door is locked),
\* and holding the shield of a shield portal of the room.
Init ==
    \E st \in Starts :
    \E gd \in GenDraws(st.round) :
       LET g == GenerateRandomRoom([Declared EXCEPT !.currentRound = st.round], 0, gd)
           s == [g EXCEPT !.playerX = st.pos[1], !.playerY = st.pos[2],
                          !.shieldActive = st.shield]
       IN  /\ FirstOverlap(s, s.obstacles) = 0
           /\ FirstOverlap(s, s.fakeDoors) = 0
           /\ st.shield => \E i \in 1..Len(s.fakeDoors) : s.fakeDoors[i].effect = "shield"
           /\ currentRound = s.currentRound
           /\ playerX = s.playerX
           /\ playerY = s.playerY
           /\ doorX = s.doorX
           /\ doorY = s.doorY
           /\ obstacles = s.obstacles
           /\ fakeDoors = s.fakeDoors
           /\ playerStartX = s.playerStartX
           /\ playerStartY = s.playerStartY
           /\ reversedControls = s.reversedControls
           /\ gameWon = s.gameWon
           /\ gameLost = s.gameLost
           /\ doorUnlocked = s.doorUnlocked
           /\ shieldActive = s.shieldActive
           /\ paused = s.paused
           /\ pauseStartTime = s.pauseStartTime
           /\ roundStartTime = s.roundStartTime
           /\ requiredSurvivalTime = s.requiredSurvivalTime
           /\ lastAutoReverseTime = s.lastAutoReverseTime
           /\ nextAutoReverseDelay = s.nextAutoReverseDelay
           /\ currentRoundRule = s.currentRoundRule
           /\ playerSpeedMultiplier = s.playerSpeedMultiplier
           /\ keys = s.keys
           /\ nextRoundTimeoutId = s.nextRoundTimeoutId
           /\ timers = s.timers
           /\ now = 0
           /\ frames = 0
           /\ pauseMark = NoMark
           /\ pressed = keys
           /\ sprites = Sprites("loaded")
           /\ spritesLoaded = Cardinality(DOMAIN sprites)
           /\ pendingFrames = 1

\* --------------------------------------------------------------- actions
Live(s) == ~s.paused /\ ~s.gameWon /\ ~s.gameLost

AutoReverseDue(s, t) ==
    Live(s) /\ t - s.lastAutoReverseTime >= s.nextAutoReverseDelay

\* gameLoop() with the draws r (next auto-reverse delay) and md (obstacles)
TickWith(r, md) ==
    /\ Live(St) => frames < MaxTicks
    /\ Becomes(GameLoop(St, now, r, md))
    /\ frames' = IF Live(St) THEN frames + 1 ELSE frames
    /\ pendingFrames > 0
    /\ Marked
    /\ UNCHANGED <<now, pressed, sprites, spritesLoaded, pendingFrames>>

\* the draws a frame consumes
TickDelayDraws == IF AutoReverseDue(St, now) THEN DelayDraws ELSE {0}
TickMoveDraws ==
    IF Live(St) THEN [1..Len(obstacles) -> MoveDraws]
    ELSE {[i \in 1..Len(obstacles) |-> Drift(0)]}

\* one requestAnimationFrame callback
Tick ==
    \E r \in TickDelayDraws : \E md \in TickMoveDraws : TickWith(r, md)

NoDraws == CHOOSE gd \in GenDraws(1) : TRUE

\* a keydown event whose handler does not regenerate the room
\* (the keyboard sends the first keydown of a movement key when the key is
\* up, and auto-repeat keydowns while it is down)
KeyDownWith(key, repeat) ==
    /\ ~(~repeat /\ key = "r" /\ ~paused /\ gameLost)
    /\ key \in MoveKeys => (repeat <=> pressed[key])
    /\ Becomes(HandleKeyDown(St, now, key, repeat, NoDraws))
    /\ pressed' = IF key \in MoveKeys THEN [pressed EXCEPT ![key] = TRUE]
                  ELSE pressed
    /\ Marked
    /\ UNCHANGED <<now, frames, sprites, spritesLoaded, pendingFrames>>

KeyDown ==
    \E key \in InputKeys : \E repeat \in BOOLEAN : KeyDownWith(key, repeat)

\* the keydown event of R that restarts the game
RestartWith(gd) ==
    /\ ~paused /\ gameLost
    /\ Becomes(HandleKeyDown(St, now, "r", FALSE, gd))
    /\ frames' = 0
    /\ Marked
    /\ UNCHANGED <<now, pressed, sprites, spritesLoaded, pendingFrames>>

Restart == \E gd \in GenDraws(1) : RestartWith(gd)

\* a keyup event; a movement key is released only when it is down
KeyUpWith(key) ==
    /\ key \in MoveKeys => pressed[key]
    /\ Becomes(HandleKeyUp(St, key))
    /\ pressed' = IF key \in MoveKeys THEN [pressed EXCEPT ![key] = FALSE]
                  ELSE pressed
    /\ Marked
    /\ UNCHANGED <<now, frames, sprites, spritesLoaded, pendingFrames>>

KeyUp == \E key \in InputKeys : KeyUpWith(key)

\* the round-advance timeout tm fires, ROUND_ADVANCE_DELAY_MS after it was set
TimeoutFireWith(tm, gd) ==
    /\ tm \in timers
    /\ now >= tm.due
    /\ currentRound < MaxRound
    /\ Becomes(AdvanceRound([St EXCEPT !.timers = TimersAfterFire(@, tm)], now, gd))
    /\ frames' = 0
    /\ Marked
    /\ UNCHANGED <<now, pressed, sprites, spritesLoaded, pendingFrames>>

TimeoutFire ==
    \E tm \in timers : \E gd \in GenDraws(currentRound + 1) : TimeoutFireWith(tm, gd)

\* time passes; the clock runs to its horizon, and beyond it only as long as
\* a timeout is still to come
ClockAdvance ==
    /\ \/ now < MaxClockSteps * ClockStep
       \/ \E tm \in timers : now < tm.due
    /\ now' = now + ClockStep
    /\ UNCHANGED <<currentRound, playerX, playerY, doorX, doorY, obstacles,
                   fakeDoors, playerStartX, playerStartY, reversedControls,
                   gameWon, gameLost, doorUnlocked, shieldActive, paused,
                   pauseStartTime, roundStartTime, requiredSurvivalTime,
                   lastAutoReverseTime, nextAutoReverseDelay, currentRoundRule,
                   playerSpeedMultiplier, keys, nextRoundTimeoutId, timers,
                   frames, pressed, sprites, spritesLoaded, pendingFrames>>
    /\ Marked

Next == Tick \/ KeyDown \/ Restart \/ KeyUp \/ TimeoutFire \/ ClockAdvance

Spec == Init /\ [][Next]_vars

\* the callback of a due timeout runs: TimeoutFire is enabled when a timeout
\* is due, and its step is the step that clears gameWon (generateRandomRoom)
Advance ==
    /\ \E tm \in timers : now >= tm.due
    /\ currentRound < MaxRound
    /\ gameWon' = FALSE

\* the browser runs a due timeout, and time does not stop
SpecFair == Spec /\ WF_gameWon(Advance) /\ WF_vars(ClockAdvance)

\* ------------------------------------------------- movement in the room
\* A second specification exercises the geometry of a frame: every set of
\* held movement keys, both control mappings, every round rule, the player
\* next to the walls, and obstacles generated at the walls heading outward.
MaxMoveTicks == 2

MoveRounds == {1, 3}
MoveKeySets == [MoveKeys -> BOOLEAN]

\* attempts that put an obstacle at the top-left corner heading up and
\* left, at the bottom wall heading down, at the right wall heading right
\* and down, and in the middle of the top wall heading up
WallObstacle ==
    <<[w |-> 0, h |-> 0, x |-> 0, y |-> 0, speed |-> 999, angle |-> 625],
      [w |-> 999, h |-> 999, x |-> 400, y |-> 999, speed |-> 999, angle |-> 250],
      [w |-> 0, h |-> 0, x |-> 999, y |-> 0, speed |-> 500, angle |-> 125],
      [w |-> 0, h |-> 0, x |-> 500, y |-> 0, speed |-> 0, angle |-> 750]>>

\* the attempt streams of the n obstacles of a room, starting the cycle of
\* the four wall obstacles anywhere
WallStreams(n) ==
    {[i \in 1..n |-> <<WallObstacle[((i + off) % 4) + 1]>>] : off \in 0..3}

MoveGenDraws(round) ==
    [survival : {0}, delay : {0}, rule : RuleDraws(round), doorY : DoorDraws,
     obstacles : WallStreams(NumObstacles(round)),
     fakeDoors : [1..NumFakeDoors(round) -> {[att |-> <<FakeF>>, effect |-> 0]}]]

\* the draws of a frame: every obstacle drifts with the wobble at either
\* extreme, or every obstacle teleports to a corner of its range
WallMoveDraws == {Drift(1000), Drift(-1000), Jump(0, 0), Jump(999, 999)}

\* the point nearest to target that updatePlayer reaches from from in steps
\* of speed
Toward(from, target, speed) ==
    IF target >= from
    THEN from + ((target - from) \div speed) * speed
    ELSE from - ((from - target) \div speed) * speed

\* where the player stands when the run begins: the spawn point, next to
\* the top-left corner, next to the bottom-right corner, before the portal
MoveStarts(speed) ==
    {<<SpawnX, SpawnY>>,
     <<Toward(SpawnX, ROOM_LEFT, speed), Toward(SpawnY, ROOM_TOP, speed)>>,
     <<Toward(SpawnX, ROOM_LEFT + ROOM_WIDTH - PLAYER_SIZE, speed),
       Toward(SpawnY, ROOM_TOP + ROOM_HEIGHT - PLAYER_SIZE, speed)>>,
     <<Toward(SpawnX, BeforePortal[1], speed), SpawnY>>}

\* the variables hold the fields of s
StartsAs(s) ==
    /\ currentRound = s.currentRound
    /\ playerX = s.playerX
    /\ playerY = s.playerY
    /\ doorX = s.doorX
    /\ doorY = s.doorY
    /\ obstacles = s.obstacles
    /\ fakeDoors = s.fakeDoors
    /\ playerStartX = s.playerStartX
    /\ playerStartY = s.playerStartY
    /\ reversedControls = s.reversedControls
    /\ gameWon = s.gameWon
    /\ gameLost = s.gameLost
    /\ doorUnlocked = s.doorUnlocked
    /\ shieldActive = s.shieldActive
    /\ paused = s.paused
    /\ pauseStartTime = s.pauseStartTime
    /\ roundStartTime = s.roundStartTime
    /\ requiredSurvivalTime = s.requiredSurvivalTime
    /\ lastAutoReverseTime = s.lastAutoReverseTime
    /\ nextAutoReverseDelay = s.nextAutoReverseDelay
    /\ currentRoundRule = s.currentRoundRule
    /\ playerSpeedMultiplier = s.playerSpeedMultiplier
    /\ keys = s.keys
    /\ nextRoundTimeoutId = s.nextRoundTimeoutId
    /\ timers = s.timers

\* a room of round 1 or 3, with any keys held and either control mapping
\* (R pressed or not), the player at one of the starting points without
\* touching an obstacle or a portal
InitMove ==
    \E round \in MoveRounds :
    \E gd \in MoveGenDraws(round) :
    \E k \in MoveKeySets :
    \E rev \in BOOLEAN :
       LET g == GenerateRandomRoom([Declared EXCEPT !.currentRound = round], 0, gd)
       IN  \E pos \in MoveStarts(EffectiveSpeed(g)) :
             LET s == [g EXCEPT !.playerX = pos[1], !.playerY = pos[2],
                                !.keys = k, !.reversedControls = rev]
             IN  /\ FirstOverlap(s, s.obstacles) = 0
                 /\ FirstOverlap(s, s.fakeDoors) = 0
                 /\ StartsAs(s)
                 /\ now = 0
                 /\ frames = 0
                 /\ pauseMark = NoMark
                 /\ pressed = keys
                 /\ sprites = Sprites("loaded")
                 /\ spritesLoaded = Cardinality(DOMAIN sprites)
                 /\ pendingFrames = 1

\* one frame of an unpaused Active state; all obstacles take the same draws
MoveFrame ==
    \E m \in WallMoveDraws :
        /\ Live(St)
        /\ frames < MaxMoveTicks
        /\ Becomes(GameLoop(St, now, 0, [i \in 1..Len(obstacles) |-> m]))
        /\ frames' = frames + 1
        /\ pendingFrames > 0
        /\ Marked
        /\ UNCHANGED <<now, pressed, sprites, spritesLoaded, pendingFrames>>

\* R restarts a lost game with a room of round 1
MoveRestart ==
    \E gd \in MoveGenDraws(1) :
        /\ ~paused /\ gameLost
        /\ Becomes(HandleKeyDown(St, now, "r", FALSE, gd))
        /\ frames' = 0
        /\ Marked
        /\ UNCHANGED <<now, pressed, sprites, spritesLoaded, pendingFrames>>

NextMove == MoveFrame \/ MoveRestart

SpecMove == InitMove /\ [][NextMove]_vars

\* ------------------------------------------------- generation of rooms
\* A third specification exercises generateRandomRoom over the rounds up to
\* MaxGenRound and over draws that reach its corners: the extremes of the
\* timers and of the door, placement attempts that all fail, and attempts
\* that fill the room.
MaxGenRound == 11

\* attempts on a grid of smallest obstacles, spaced just beyond the minimum
\* distance: two rows of four and a third row shifted by half a cell
GridCell(x, y) == [w |-> 0, h |-> 0, x |-> x, y |-> y, speed |-> 0, angle |-> 0]
GridStream ==
    <<GridCell(0, 0), GridCell(282, 0), GridCell(564, 0), GridCell(846, 0),
      GridCell(0, 501), GridCell(282, 501), GridCell(564, 501), GridCell(846, 501),
      GridCell(141, 999), GridCell(423, 999), GridCell(705, 999), GridCell(987, 999)>>

\* every obstacle tries the grid; every attempt lands on the spawn point;
\* the streams alternate; or the first obstacle has its first valid draw
\* one attempt beyond the budget and the others try the grid
GenObstacleDraws(n) ==
    {[i \in 1..n |-> GridStream],
     [i \in 1..n |-> <<ObsAtSpawn>>],
     [i \in 1..n |-> IF i % 2 = 1 THEN StreamA ELSE StreamB],
     [i \in 1..n |->
        IF i = 1
        THEN [k \in 1..(OBSTACLE_ATTEMPTS + 1) |->
                 IF k <= OBSTACLE_ATTEMPTS THEN ObsAtSpawn ELSE GridCell(282, 501)]
        ELSE GridStream]}

\* every portal at the free place; every attempt next to the door; or the
\* first portal has the free place one attempt beyond the budget
GenFakeDraws(n) ==
    {[i \in 1..n |-> [att |-> <<FakeF>>, effect |-> 0]],
     [i \in 1..n |-> [att |-> <<FakeAtDoor>>, effect |-> 500]],
     [i \in 1..n |->
        [att |-> IF i = 1
                 THEN [k \in 1..(FAKE_DOOR_ATTEMPTS + 1) |->
                          IF k <= FAKE_DOOR_ATTEMPTS THEN FakeAtDoor ELSE FakeF]
                 ELSE <<FakeF>>,
         effect |-> 500]]}

GenSweep(round) ==
    [survival : {0, 500, 999}, delay : {0, 999}, rule : RuleDraws(round),
     doorY : {0, 500, 999},
     obstacles : GenObstacleDraws(NumObstacles(round)),
     fakeDoors : GenFakeDraws(NumFakeDoors(round))]

\* the draws of the room that was won before the generation under test
PlainDraws(round) ==
    [survival |-> 0, delay |-> 0, rule |-> 0, doorY |-> 500,
     obstacles |-> [i \in 1..NumObstacles(round) |-> StreamA],
     fakeDoors |-> [i \in 1..NumFakeDoors(round) |->
                       [att |-> <<FakeF>>, effect |-> 0]]]

\* the room of the round, won at the door at the time the door unlocks
WonRoom(round) ==
    LET g == GenerateRandomRoom([Declared EXCEPT !.currentRound = round], 0,
                                PlainDraws(round))
        atDoor == [g EXCEPT !.playerX = Toward(SpawnX, g.doorX, EffectiveSpeed(g))]
        t == g.requiredSurvivalTime
    IN  CheckDoorCollision(CheckSurvivalTime(atDoor, t), t)

\* the script before initGame(), or a round that was won and whose
\* round-advance timeout is due
InitGen ==
    \/ /\ StartsAs(Declared)
       /\ now = 0
       /\ frames = 0
       /\ pauseMark = NoMark
       /\ pressed = keys
       /\ sprites = Sprites("loaded")
       /\ spritesLoaded = Cardinality(DOMAIN sprites)
       /\ pendingFrames = 0
    \/ \E round \in 1..(MaxGenRound - 1) :
          LET w == WonRoom(round)
          IN  /\ StartsAs([w EXCEPT !.cues = <<>>])
              /\ now = w.requiredSurvivalTime + ROUND_ADVANCE_DELAY_MS
              /\ frames = 1
              /\ pauseMark = NoMark
              /\ pressed = keys
              /\ sprites = Sprites("loaded")
              /\ spritesLoaded = Cardinality(DOMAIN sprites)
              /\ pendingFrames = 1

\* initGame(): round 1 is generated
GenInitGame ==
    \E gd \in GenSweep(1) :
        /\ playerStartX = 0 /\ ~gameWon /\ ~gameLost
        /\ Becomes(GenerateRandomRoom([St EXCEPT !.currentRound = 1], now, gd))
        /\ frames' = 0
        /\ Marked
        /\ pendingFrames' = pendingFrames + 1
        /\ UNCHANGED <<now, pressed, sprites, spritesLoaded>>

\* the round-advance timeout fires: the next round is generated
GenTimeout ==
    \E tm \in timers : \E gd \in GenSweep(currentRound + 1) :
        /\ now >= tm.due
        /\ currentRound < MaxGenRound
        /\ Becomes(AdvanceRound([St EXCEPT !.timers = TimersAfterFire(@, tm)],
                                now, gd))
        /\ frames' = 0
        /\ Marked
        /\ UNCHANGED <<now, pressed, sprites, spritesLoaded, pendingFrames>>

\* the first frame of a fresh room runs when its survival time is over (the
\* browser calls no frame while the page is hidden); nothing is held
GenUnlockFrame ==
    \E r \in DelayDraws :
        /\ Live(St) /\ frames = 0 /\ playerStartX = SpawnX
        /\ now' = roundStartTime + requiredSurvivalTime
        /\ Becomes(GameLoop(St, now', r,
                            [i \in 1..Len(obstacles) |-> Drift(1000)]))
        /\ frames' = frames + 1
        /\ pendingFrames > 0
        /\ Marked
        /\ UNCHANGED <<pressed, sprites, spritesLoaded, pendingFrames>>

NextGen == GenInitGame \/ GenTimeout \/ GenUnlockFrame

SpecGen == InitGen /\ [][NextGen]_vars

\* ------------------------------------------------- start of the game loop
\* onSpriteLoad() that starts the game from the fourth sprite on
SpriteSettledEarly ==
    \E n \in DOMAIN sprites : \E outcome \in {"loaded", "failed"} :
        /\ sprites[n] = "loading"
        /\ sprites' = [sprites EXCEPT ![n] = outcome]
        /\ spritesLoaded' = spritesLoaded + 1
        /\ IF spritesLoaded' >= Cardinality(DOMAIN sprites) - 1
           THEN \E gd \in GenDraws(1) :
                  LET g == GenerateRandomRoom([St EXCEPT !.currentRound = 1],
                                              now, gd)
                  IN  \E md \in [1..Len(g.obstacles) -> MoveDraws] :
                        /\ Becomes(GameLoop(g, now, 0, md))
                        /\ frames' = 1
                        /\ pendingFrames' = pendingFrames + 1
           ELSE /\ Becomes(St)
                /\ UNCHANGED <<frames, pendingFrames>>
        /\ Marked
        /\ UNCHANGED <<now, pressed>>

\* img.onload or img.onerror of one sprite: both call onSpriteLoad(); the call
\* that counts the last sprite runs initGame(): round 1 is generated and
\* gameLoop() runs its first frame and requests the next one
SpriteSettled ==
    \E n \in DOMAIN sprites : \E outcome \in {"loaded", "failed"} :
        /\ sprites[n] = "loading"
        /\ sprites' = [sprites EXCEPT ![n] = outcome]
        /\ spritesLoaded' = spritesLoaded + 1
        /\ IF spritesLoaded' = Cardinality(DOMAIN sprites)
           THEN \E gd \in GenDraws(1) :
                  LET g == GenerateRandomRoom([St EXCEPT !.currentRound = 1],
                                              now, gd)
                  IN  \E md \in [1..Len(g.obstacles) -> MoveDraws] :
                        /\ Becomes(GameLoop(g, now, 0, md))
                        /\ frames' = 1
                        /\ pendingFrames' = pendingFrames + 1
           ELSE /\ Becomes(St)
                /\ UNCHANGED <<frames, pendingFrames>>
        /\ Marked
        /\ UNCHANGED <<now, pressed>>

\* the script has run to its end: the images are loading, the handlers are
\* set, and the test spritesLoaded === totalSprites at its end has failed
InitBoot ==
    /\ StartsAs(Declared)
    /\ now = 0
    /\ frames = 0
    /\ pauseMark = NoMark
    /\ pressed = keys
    /\ sprites = Sprites("loading")
    /\ spritesLoaded = 0
    /\ pendingFrames = 0

SpecBoot == InitBoot /\ [][SpriteSettled \/ Tick \/ ClockAdvance]_vars

\* ------------------------------------------------- frames without a bound
\* A room of round 1 or 2 in which every attempt at an obstacle was rejected
\* (no obstacle can end the round), the player at the spawn point.
InitUnlock ==
    \E round \in {1, 2} :
    \E gd \in [survival : SurvivalDraws, delay : DelayDraws,
               rule : RuleDraws(round), doorY : DoorDraws,
               obstacles : {[i \in 1..NumObstacles(round) |-> <<ObsAtSpawn>>]},
               fakeDoors : [1..NumFakeDoors(round) -> FakeStreams]] :
        /\ StartsAs(GenerateRandomRoom(
                        [Declared EXCEPT !.currentRound = round], 0, gd))
        /\ now = 0
        /\ frames = 0
        /\ pauseMark = NoMark
        /\ pressed = keys
        /\ sprites = Sprites("loaded")
        /\ spritesLoaded = Cardinality(DOMAIN sprites)
        /\ pendingFrames = 1

\* one requestAnimationFrame callback, gameLoop() step by step (each step's
\* result is a value before the next step reads it); the display shows at
\* most MaxTicks frames of play per ClockStep of time
Frame ==
    \E r \in TickDelayDraws :
        /\ pendingFrames > 0
        /\ Live(St) => frames < MaxTicks * (1 + now \div ClockStep)
        /\ IF paused
           THEN Becomes(St)
           ELSE \E s1 \in {UpdateAutoReverse(St, now, r)} :
                \E s2 \in {CheckSurvivalTime(s1, now)} :
                \E s3 \in {UpdatePlayer(s2)} :
                \E s4 \in {UpdateObstaclesMovement(
                               s3, [i \in 1..Len(obstacles) |-> Drift(1000)])} :
                \E s5 \in {CheckObstacleCollision(s4)} :
                \E s6 \in {CheckFakeDoorCollision(s5)} :
                    Becomes(CheckDoorCollision(s6, now))
        /\ frames' = IF Live(St) THEN frames + 1 ELSE frames
        /\ Marked
        /\ UNCHANGED <<now, pressed, sprites, spritesLoaded, pendingFrames>>

\* the browser keeps calling the frame callback, and time does not stop
SpecUnlock ==
    /\ InitUnlock
    /\ [][Frame \/ KeyDown \/ KeyUp \/ ClockAdvance]_vars
    /\ WF_vars(Frame)
    /\ WF_vars(ClockAdvance)

\* ================================================================ claims

\* C1 (door gating): in every reachable state Won implies that the door is
\* unlocked; and a frame at whose door check the player's box overlaps the
\* door's box while the door is still locked does not set Won and does not
\* schedule a round advance.
C1_DoorGating ==
    /\ [](gameWon => doorUnlocked)
    /\ [][\A r \in TickDelayDraws : \A md \in TickMoveDraws :
            LET b == BeforeDoorCheck(St, now, r, md)
            IN  (/\ Live(St) /\ frames' = frames + 1
                 /\ PlayerAtDoor(b) /\ ~b.doorUnlocked
                 /\ TickWith(r, md))
                    => /\ ~gameWon'
                       /\ timers' = timers
                       /\ nextRoundTimeoutId' = nextRoundTimeoutId]_vars

\* a frame has run, and the player stands in the door while it is locked
C1_Witness ==
    /\ frames > 0
    /\ PlayerAtDoor(St)
    /\ ~doorUnlocked
    /\ ~gameWon /\ ~gameLost /\ ~paused
    /\ timers = {}

\* the timeout that checkDoorCollision sets at time t in state s
AdvanceTimer(s, t) ==
    [id |-> s.nextRoundTimeoutId, due |-> t + ROUND_ADVANCE_DELAY_MS,
     round |-> s.currentRound]

\* C2 as stated (Active -> Won): in a frame that starts unpaused and Active
\* and at whose door check the player's box overlaps the door's box and the
\* door is unlocked, the state becomes Won in that frame and a round advance
\* is scheduled.
C2_AsStated ==
    [][\A r \in TickDelayDraws : \A md \in TickMoveDraws :
          LET b == BeforeDoorCheck(St, now, r, md)
          IN  (/\ Live(St) /\ frames' = frames + 1
               /\ PlayerAtDoor(b) /\ b.doorUnlocked
               /\ TickWith(r, md))
                  => /\ gameWon'
                     /\ nextRoundTimeoutId' # NULL]_vars

\* C2 (Active -> Won), amended: in a frame that starts unpaused and Active,
\* that has not become Lost at its obstacle check, and at whose door check
\* the player's box overlaps the door's box and the door is unlocked, the
\* state becomes Won in that frame and one round advance is scheduled, due
\* ROUND_ADVANCE_DELAY_MS later; and Won is reached by no other step.
C2_ActiveToWon ==
    /\ ~gameWon
    /\ [][/\ \A r \in TickDelayDraws : \A md \in TickMoveDraws :
              LET b == BeforeDoorCheck(St, now, r, md)
              IN  (/\ Live(St) /\ frames' = frames + 1
                   /\ ~b.gameLost /\ PlayerAtDoor(b) /\ b.doorUnlocked
                   /\ TickWith(r, md))
                      => /\ gameWon'
                         /\ nextRoundTimeoutId' # NULL
                         /\ timers' = {AdvanceTimer(St', now)}
          /\ (~gameWon /\ gameWon') =>
                \E r \in TickDelayDraws : \E md \in TickMoveDraws :
                   LET b == BeforeDoorCheck(St, now, r, md)
                   IN  /\ TickWith(r, md)
                       /\ Live(St) /\ ~b.gameLost
                       /\ PlayerAtDoor(b) /\ b.doorUnlocked]_vars

\* the round has just been won: the advance is pending and not yet due
C2_Witness ==
    /\ gameWon
    /\ frames > 0
    /\ PlayerAtDoor(St)
    /\ \E tm \in timers : tm.id = nextRoundTimeoutId /\ now < tm.due

\* C3 (one advance per win): a step that leaves Won is the firing of the
\* pending timeout, not before it is due; it raises the round index by
\* exactly 1, regenerates the room into Active and leaves no advance
\* pending, so one win advances the round once.  While Won no other step
\* changes the round index, and the round index changes in no other way
\* than by this step or by the restart from Lost.  Under timer fairness
\* every Won state of a round below MaxRound is followed by the Active
\* state of the next round.
C3_OneAdvancePerWin ==
    /\ [][/\ (gameWon /\ ~gameWon') =>
                /\ \E tm \in timers : tm.id = nextRoundTimeoutId /\ now >= tm.due
                /\ currentRound' = currentRound + 1
                /\ Live(St') /\ ~doorUnlocked'
                /\ playerX' = playerStartX' /\ playerY' = playerStartY'
                /\ roundStartTime' = now
                /\ timers' = {} /\ nextRoundTimeoutId' = NULL
          /\ (gameWon /\ gameWon') => currentRound' = currentRound
          /\ (currentRound' # currentRound) =>
                \/ gameWon /\ ~gameWon'
                \/ gameLost /\ currentRound' = 1]_vars
    /\ \A n \in 1..(MaxRound - 1) :
          (gameWon /\ currentRound = n) ~> (currentRound = n + 1 /\ Live(St))

\* the advance has run: the next round has just begun at the spawn point
C3_Witness ==
    /\ currentRound = MaxRound
    /\ Live(St) /\ frames = 0
    /\ playerX = SpawnX /\ playerY = SpawnY
    /\ roundStartTime = now /\ now >= ROUND_ADVANCE_DELAY_MS
    /\ timers = {}

\* C4 (no stale advance): at most one advance is pending at any time, and a
\* pending advance is the one that nextRoundTimeoutId names, set by the
\* round that is current and still Won; so whenever the callback runs the
\* state is Won for the round that scheduled it.  The restart, which
\* regenerates the round by another path, leaves no advance pending.
C4_NoStaleAdvance ==
    /\ [](Cardinality(timers) <= 1)
    /\ [](\A tm \in timers : /\ gameWon /\ ~gameLost
                              /\ tm.round = currentRound
                              /\ tm.id = nextRoundTimeoutId)
    /\ [][/\ (timers # {} /\ timers' # timers) =>
                /\ gameWon /\ ~gameWon'
                /\ \E tm \in timers : /\ now >= tm.due
                                       /\ tm.round = currentRound
                                       /\ currentRound' = tm.round + 1
                /\ timers' = {} /\ nextRoundTimeoutId' = NULL
          /\ (gameLost /\ ~gameLost') =>
                /\ currentRound' = 1
                /\ timers' = {} /\ nextRoundTimeoutId' = NULL]_vars

\* the pending advance is due while the round that set it is still Won
C4_Witness ==
    /\ gameWon
    /\ \E tm \in timers : /\ now >= tm.due
                           /\ tm.round = currentRound
                           /\ tm.id = nextRoundTimeoutId

\* C5 (Active -> Lost): in a frame that starts unpaused and Active and at
\* whose obstacle check the player's box overlaps an obstacle while the
\* shield is inactive, the state becomes Lost and the obstacle collection
\* stays as the obstacle check found it: no obstacle is removed.
C5_ActiveToLost ==
    [][\A r \in TickDelayDraws : \A md \in TickMoveDraws :
          LET m == BeforeObstacleCheck(St, now, r, md)
          IN  (/\ Live(St) /\ frames' = frames + 1
               /\ ~m.shieldActive
               /\ FirstOverlap(m, m.obstacles) # 0
               /\ TickWith(r, md))
                  => /\ gameLost'
                     /\ obstacles' = m.obstacles
                     /\ Len(obstacles') = Len(obstacles)]_vars

\* the round is lost on an obstacle, which is still there
C5_Witness ==
    /\ gameLost
    /\ frames > 0
    /\ ~shieldActive
    /\ FirstOverlap(St, obstacles) # 0

\* C6 (shield consumption): in a frame at whose obstacle check the player's
\* box overlaps obstacles while the shield is active, exactly one obstacle
\* is removed, the first overlapped one in the collection, also when
\* several are overlapped; the check clears the shield flag (after it the
\* shield is held only through a shield portal touched in the same frame)
\* and the frame does not set Lost.  An overlap at the obstacle check of a
\* frame with the shield inactive sets Lost.
C6_ShieldConsumption ==
    [][\A r \in TickDelayDraws : \A md \in TickMoveDraws :
          LET m == BeforeObstacleCheck(St, now, r, md)
              i == FirstOverlap(m, m.obstacles)
          IN  (/\ Live(St) /\ frames' = frames + 1
               /\ i # 0
               /\ TickWith(r, md))
                  => IF m.shieldActive
                     THEN /\ Len(obstacles') = Len(m.obstacles) - 1
                          /\ \A j \in 1..Len(obstacles') :
                                obstacles'[j] = m.obstacles[IF j < i THEN j ELSE j + 1]
                          /\ ~CheckObstacleCollision(m).shieldActive
                          /\ shieldActive' =>
                                \E j \in 1..Len(fakeDoors) :
                                   /\ fakeDoors[j].effect = "shield"
                                   /\ PlayerOverlaps(playerX', playerY', fakeDoors[j])
                          /\ ~gameLost'
                     ELSE gameLost']_vars

\* the shield has taken one of several overlapped obstacles: the round goes
\* on with the shield spent and the player still inside an obstacle
C6_Witness ==
    /\ Live(St)
    /\ frames > 0
    /\ ~shieldActive
    /\ FirstOverlap(St, obstacles) # 0

\* C7 (Lost is absorbing until restart): in Lost no timeout is pending, and
\* a step that stays in Lost, a frame or a pause toggle among them, changes
\* no variable of the script other than the held-key flags; the restart
\* (the keydown of R, not repeated, in Lost) sets the round index to 1 and
\* regenerates the room into Active; and a keydown of R in any other state
\* changes neither the round index nor the layout.
C7_LostUntilRestart ==
    /\ [](gameLost => timers = {} /\ nextRoundTimeoutId = NULL)
    /\ [][/\ (gameLost /\ gameLost') =>
                UNCHANGED <<currentRound, playerX, playerY, doorX, doorY,
                            obstacles, fakeDoors, playerStartX, playerStartY,
                            reversedControls, gameWon, doorUnlocked,
                            shieldActive, paused, pauseStartTime,
                            roundStartTime, requiredSurvivalTime,
                            lastAutoReverseTime, nextAutoReverseDelay,
                            currentRoundRule, playerSpeedMultiplier,
                            nextRoundTimeoutId, timers>>
          /\ (gameLost /\ (KeyDownWith("escape", FALSE) \/ Tick)) =>
                UNCHANGED <<gameplay, timers>>
          /\ (gameLost /\ ~gameLost') =>
                /\ \E gd \in GenDraws(1) : RestartWith(gd)
                /\ currentRound' = 1
                /\ Live(St') /\ ~doorUnlocked' /\ ~shieldActive'
                /\ playerX' = SpawnX /\ playerY' = SpawnY
                /\ roundStartTime' = now /\ lastAutoReverseTime' = now
                /\ Len(obstacles') <= NumObstacles(1)
                /\ fakeDoors' = <<>>
          /\ \A repeat \in BOOLEAN :
                (~gameLost /\ KeyDownWith("r", repeat)) =>
                   UNCHANGED <<currentRound, doorX, doorY, obstacles, fakeDoors,
                               playerX, playerY, playerStartX, playerStartY,
                               gameWon, gameLost, doorUnlocked>>]_vars

\* a round after the first is lost
C7_Witness ==
    /\ gameLost
    /\ frames > 0
    /\ currentRound = 2
    /\ now > 0

\* C8 (outcome exclusivity): Won and Lost are never both true.
C8_OutcomeExclusive == ~(gameWon /\ gameLost)

\* the round is lost with the player in the unlocked door
C8_Witness ==
    /\ gameLost
    /\ doorUnlocked
    /\ PlayerAtDoor(St)

\* C9 (pause only in Active): Paused implies neither Won nor Lost; the pause
\* toggle changes neither outcome flag and, in Won or Lost, changes nothing
\* at all; and the paused flag changes only in a state that is neither Won
\* nor Lost.
C9_PauseOnlyInActive ==
    /\ [](paused => ~gameWon /\ ~gameLost)
    /\ [][/\ \A repeat \in BOOLEAN :
                KeyDownWith("escape", repeat) =>
                   /\ UNCHANGED <<gameWon, gameLost>>
                   /\ (gameWon \/ gameLost) => UNCHANGED <<gameplay, timers>>
          /\ (paused' # paused) =>
                /\ ~gameWon /\ ~gameLost
                /\ ~gameWon' /\ ~gameLost'
                /\ KeyDownWith("escape", FALSE)]_vars

\* the game has been paused for a while, after some frames of the round
C9_Witness ==
    /\ paused
    /\ frames > 0
    /\ now > pauseStartTime

\* C10 (pause correctness): right after a pause is left, the time left to
\* the unlock and the time left to the next automatic reversal are what
\* they were when the pause was entered, and both roundStartTime and
\* lastAutoReverseTime are later by the length of the pause.
C10_PauseCorrectness ==
    pauseMark.phase = "resumed" =>
        /\ requiredSurvivalTime - (now - roundStartTime) = pauseMark.unlock
        /\ RemainingToUnlock(St, now) = Max(0, pauseMark.unlock)
        /\ RemainingToAutoReverse(St, now) = pauseMark.auto
        /\ roundStartTime = pauseMark.roundStart + (now - pauseMark.at)
        /\ lastAutoReverseTime = pauseMark.lastAuto + (now - pauseMark.at)

\* a pause of some length has just been left, before the unlock
C10_Witness ==
    /\ pauseMark.phase = "resumed"
    /\ now > pauseMark.at
    /\ ~doorUnlocked
    /\ pauseMark.unlock > 0

\* C11 (paused frames and keys): in every paused state a frame, with any
\* draws, returns the state it was given (player, obstacles, door flag,
\* reversed flag, shield, outcome flags and round index included), and a
\* press of R or of a movement key returns the state it was given.
C11_PausedFreeze ==
    paused =>
        /\ \A r \in DelayDraws : \A md \in [1..Len(obstacles) -> MoveDraws] :
               GameLoop(St, now, r, md) = St
        /\ \A key \in {"r"} \cup MoveKeys :
               HandleKeyDown(St, now, key, FALSE, NoDraws) = St

\* paused with a movement key held and the unlock time already reached: a
\* frame that ran would move the player and unlock the door
C11_Witness ==
    /\ paused
    /\ keys["d"]
    /\ ~doorUnlocked
    /\ now - roundStartTime >= requiredSurvivalTime
    /\ now - lastAutoReverseTime >= nextAutoReverseDelay

\* C12 (door unlock): doorUnlocked turns true only in a frame of an unpaused
\* Active state at which now - roundStartTime (roundStartTime is moved
\* forward by every pause) has reached requiredSurvivalTime, and every such
\* frame unlocks; doorUnlocked turns false only when the room is
\* regenerated (the round-advance callback out of Won, or a restart out of
\* Lost).
C12_DoorUnlock ==
    [][/\ (~doorUnlocked /\ doorUnlocked') =>
              /\ Live(St)
              /\ frames' = frames + 1
              /\ now - roundStartTime >= requiredSurvivalTime
              /\ UNCHANGED <<roundStartTime, requiredSurvivalTime, now>>
       /\ (Live(St) /\ frames' = frames + 1
             /\ now - roundStartTime >= requiredSurvivalTime) => doorUnlocked'
       /\ (doorUnlocked /\ ~doorUnlocked') =>
              /\ gameWon \/ gameLost
              /\ Live(St')
              /\ frames' = 0
              /\ roundStartTime' = now
              /\ playerX' = SpawnX /\ playerY' = SpawnY]_vars

\* round 1 was paused for a while (its start time was moved forward) and
\* the door has then unlocked in a frame
C12_Witness ==
    /\ currentRound = 1
    /\ doorUnlocked
    /\ Live(St)
    /\ frames > 0
    /\ roundStartTime > 0
    /\ now - roundStartTime >= requiredSurvivalTime

\* C13 (automatic reversal): a frame of an unpaused Active state at which
\* now - lastAutoReverseTime has reached nextAutoReverseDelay flips
\* reversedControls once, sets lastAutoReverseTime to now and draws a new
\* delay; a frame before that time changes none of the three; in a Paused,
\* Won or Lost state updateAutoReverse returns its input, and the schedule
\* changes there only by leaving the pause (both kept in step) or by a
\* regeneration.
C13_AutoReverse ==
    /\ [](~Live(St) => \A r \in DelayDraws : UpdateAutoReverse(St, now, r) = St)
    /\ [][/\ (Live(St) /\ frames' = frames + 1) =>
                 IF now - lastAutoReverseTime >= nextAutoReverseDelay
                 THEN /\ reversedControls' = ~reversedControls
                      /\ lastAutoReverseTime' = now
                      /\ nextAutoReverseDelay' \in
                             {GetNextAutoReverseDelay(r) : r \in DelayDraws}
                 ELSE UNCHANGED <<reversedControls, lastAutoReverseTime,
                                  nextAutoReverseDelay>>
          /\ (~Live(St) /\ <<lastAutoReverseTime, nextAutoReverseDelay>>' #
                               <<lastAutoReverseTime, nextAutoReverseDelay>>) =>
                 \/ /\ paused /\ ~paused'
                    /\ lastAutoReverseTime' =
                           lastAutoReverseTime + (now - pauseStartTime)
                    /\ UNCHANGED <<nextAutoReverseDelay, reversedControls>>
                 \/ /\ gameWon \/ gameLost
                    /\ Live(St')
                    /\ frames' = 0
                    /\ lastAutoReverseTime' = now
                    /\ ~reversedControls']_vars

\* an automatic reversal has just fired, later than the round's start
C13_Witness ==
    /\ Live(St)
    /\ frames > 0
    /\ reversedControls
    /\ lastAutoReverseTime = now
    /\ now > roundStartTime

\* C14 (manual reversal): in every state that is neither Lost nor paused a
\* non-repeated press of R returns the state with reversedControls negated
\* and nothing else changed (lastAutoReverseTime and nextAutoReverseDelay
\* included); the only side effect is the reversal sound.
C14_ManualReverse ==
    (~gameLost /\ ~paused) =>
        HandleKeyDown(St, now, "r", FALSE, NoDraws) =
            [St EXCEPT !.reversedControls = ~reversedControls,
                       !.cues = <<"reverse">>]

\* R has been pressed in a round in which the automatic reversal has not
\* fired yet, some time after the round began
C14_Witness ==
    /\ reversedControls
    /\ ~gameLost /\ ~paused
    /\ lastAutoReverseTime = roundStartTime
    /\ now > lastAutoReverseTime

\* C15 (reversed controls): for the keys held and the speed of every state,
\* the displacement of updatePlayer with reversed controls is the negation,
\* on both axes, of the displacement with normal controls; with W and A
\* held it is (-s, -s) normally and (+s, +s) reversed; and a frame moves
\* the player by the displacement of the state's mapping (clamped to the
\* room), unless a decoy portal then sends the player back to the spawn.
C15_ReversedControls ==
    /\ [](LET s == EffectiveSpeed(St)
          IN  /\ Dx(keys, TRUE, s) = -Dx(keys, FALSE, s)
              /\ Dy(keys, TRUE, s) = -Dy(keys, FALSE, s)
              /\ \A k \in MoveKeySets : \A v \in {s, PLAYER_SPEED} :
                    /\ Dx(k, TRUE, v) = -Dx(k, FALSE, v)
                    /\ Dy(k, TRUE, v) = -Dy(k, FALSE, v)
              /\ LET wa == [k \in MoveKeys |-> k \in {"w", "a"}]
                 IN  /\ <<Dx(wa, FALSE, s), Dy(wa, FALSE, s)>> = <<-s, -s>>
                     /\ <<Dx(wa, TRUE, s), Dy(wa, TRUE, s)>> = <<s, s>>)
    /\ [][(Live(St) /\ frames' = frames + 1) =>
             LET s == EffectiveSpeed(St)
                 px == Max(ROOM_LEFT,
                           Min(ROOM_LEFT + ROOM_WIDTH - PLAYER_SIZE,
                               playerX + Dx(keys, reversedControls, s)))
                 py == Max(ROOM_TOP,
                           Min(ROOM_TOP + ROOM_HEIGHT - PLAYER_SIZE,
                               playerY + Dy(keys, reversedControls, s)))
             IN  \/ playerX' = px /\ playerY' = py
                 \/ /\ \E i \in 1..Len(fakeDoors) :
                          PlayerOverlaps(px, py, fakeDoors[i])
                    /\ playerX' = playerStartX /\ playerY' = playerStartY]_vars

\* with reversed controls and W and A held, a frame has moved the player
\* right and down from the spawn point
C15_Witness ==
    /\ reversedControls
    /\ keys = [k \in MoveKeys |-> k \in {"w", "a"}]
    /\ frames = 1
    /\ playerX = playerStartX + EffectiveSpeed(St)
    /\ playerY = playerStartY + EffectiveSpeed(St)

\* C16 (room containment): in every reachable state the player's box and
\* the box of every obstacle lie inside the room rectangle.
C16_RoomContainment ==
    LET InRoom(b, w, h) ==
            /\ ROOM_LEFT <= b.x /\ b.x + w <= ROOM_LEFT + ROOM_WIDTH
            /\ ROOM_TOP <= b.y /\ b.y + h <= ROOM_TOP + ROOM_HEIGHT
    IN  /\ InRoom([x |-> playerX, y |-> playerY], PLAYER_SIZE, PLAYER_SIZE)
        /\ \A i \in 1..Len(obstacles) :
               InRoom(obstacles[i], obstacles[i].width, obstacles[i].height)

\* after a frame the player is held at the bottom-right corner of the room
\* and an obstacle has been turned back at a wall
C16_Witness ==
    /\ frames > 0
    /\ playerX = ROOM_LEFT + ROOM_WIDTH - PLAYER_SIZE
    /\ playerY = ROOM_TOP + ROOM_HEIGHT - PLAYER_SIZE
    /\ \E i \in 1..Len(obstacles) :
          \/ obstacles[i].y = ROOM_TOP /\ obstacles[i].vy > 0
          \/ /\ obstacles[i].y = ROOM_TOP + ROOM_HEIGHT - obstacles[i].height
             /\ obstacles[i].vy < 0

\* C17 (order of a frame): the state after a frame of an unpaused Active
\* state is the result of updateAutoReverse, checkSurvivalTime,
\* updatePlayer, updateObstaclesMovement, checkObstacleCollision,
\* checkFakeDoorCollision and checkDoorCollision applied in this order, each
\* to the result of the one before, for the draws of the frame.
C17_FrameOrder ==
    [][(Live(St) /\ frames' = frames + 1) =>
          \E r \in TickDelayDraws : \E md \in TickMoveDraws :
             LET s1 == UpdateAutoReverse(St, now, r)
                 s2 == CheckSurvivalTime(s1, now)
                 s3 == UpdatePlayer(s2)
                 s4 == UpdateObstaclesMovement(s3, md)
                 s5 == CheckObstacleCollision(s4)
                 s6 == CheckFakeDoorCollision(s5)
                 s7 == CheckDoorCollision(s6, now)
             IN  St' = [s7 EXCEPT !.cues = <<>>]]_vars

\* the first frame of a room has both unlocked the door and won the round
C17_Witness ==
    /\ gameWon
    /\ frames = 1
    /\ doorUnlocked

\* C18 (round rule): in rounds 1 and 2 the rule is none; in every round it
\* is one of none, flipY, slowPlayer, fastPlayer; playerSpeedMultiplier is
\* 0.6 for slowPlayer, 1.4 for fastPlayer and 1 otherwise (in tenths); and
\* the rule and the multiplier change only in a step that regenerates the
\* room (out of Won by the round advance, out of Lost by the restart).
C18_RoundRule ==
    /\ [](/\ currentRound \in {1, 2} => currentRoundRule = "none"
          /\ currentRoundRule \in {"none", "flipY", "slowPlayer", "fastPlayer"}
          /\ playerSpeedMultiplier =
                 (CASE currentRoundRule = "slowPlayer" -> 6
                    [] currentRoundRule = "fastPlayer" -> 14
                    [] OTHER -> 10))
    /\ [][<<currentRoundRule, playerSpeedMultiplier>>' #
              <<currentRoundRule, playerSpeedMultiplier>> =>
             /\ gameWon \/ gameLost
             /\ Live(St')
             /\ frames' = 0
             /\ roundStartTime' = now
             /\ currentRound' # currentRound]_vars

\* round 3 drew the slowPlayer rule and a frame has moved the player by
\* 0.6 of the player speed
C18_Witness ==
    /\ currentRound = 3
    /\ currentRoundRule = "slowPlayer"
    /\ frames > 0
    /\ Live(St)
    /\ playerX = SpawnX + (PLAYER_SPEED * 6) \div 10

\* a room that generateRandomRoom has just produced
FreshRoom ==
    /\ frames = 0
    /\ playerStartX = SpawnX
    /\ playerX = SpawnX /\ playerY = SpawnY
    /\ Live(St)
    /\ timers = {}

C20_AsStated ==
    (FreshRoom /\ currentRound = 1) =>
        /\ Len(obstacles) = 1
        /\ Len(fakeDoors) = 0
        /\ currentRoundRule = "none"
        /\ requiredSurvivalTime \in MIN_SURVIVAL_TIME_MS..MAX_SURVIVAL_TIME_MS

\* C20 (round 1 generation): every generated room of round 1 holds at most
\* one obstacle, which is clear of the spawn point and of the door, no
\* decoy portal, the rule none and a required survival time of 5 to 10
\* seconds; for every draw, the room holds one obstacle when one of the
\* placement attempts (at most 100) is valid, and none when all are
\* rejected.
C20_RoundOneGeneration ==
    (FreshRoom /\ currentRound = 1) =>
        /\ Len(obstacles) <= 1
        /\ \A i \in 1..Len(obstacles) :
              ObstacleValid(obstacles[i], <<>>, SpawnX, SpawnY, doorX, doorY)
        /\ Len(fakeDoors) = 0
        /\ currentRoundRule = "none"
        /\ requiredSurvivalTime \in MIN_SURVIVAL_TIME_MS..MAX_SURVIVAL_TIME_MS
        /\ \A gd \in GenSweep(1) :
              LET g == GenerateRandomRoom([Declared EXCEPT !.currentRound = 1],
                                          now, gd)
                  k == FirstValid(gd.obstacles[1], <<>>, SpawnX, SpawnY,
                                  DoorX, DoorYFor(gd.doorY))
              IN  /\ Len(g.obstacles) = IF k = 0 THEN 0 ELSE 1
                  /\ k <= OBSTACLE_ATTEMPTS
                  /\ g.fakeDoors = <<>>
                  /\ g.currentRoundRule = "none"
                  /\ g.requiredSurvivalTime \in
                         MIN_SURVIVAL_TIME_MS..MAX_SURVIVAL_TIME_MS

\* a room of round 1 in which every placement attempt was rejected: it has
\* no obstacle, and the longest survival time that is drawn
C20_Witness ==
    /\ FreshRoom
    /\ currentRound = 1
    /\ obstacles = <<>>
    /\ requiredSurvivalTime = SurvivalTime(999)

\* C21 (obstacle clearance): in every room as generated, the box of every
\* obstacle is disjoint from the spawn box of the player inflated by 100 px
\* on every side and from the door box inflated by 50 px on every side.
C21_ObstacleClearance ==
    FreshRoom =>
        \A i \in 1..Len(obstacles) :
            LET o == obstacles[i]
            IN  /\ \/ o.x + o.width <= playerStartX - Px(100)
                   \/ o.x >= playerStartX + PLAYER_SIZE + Px(100)
                   \/ o.y + o.height <= playerStartY - Px(100)
                   \/ o.y >= playerStartY + PLAYER_SIZE + Px(100)
                /\ \/ o.x + o.width <= doorX - Px(50)
                   \/ o.x >= doorX + DOOR_WIDTH + Px(50)
                   \/ o.y + o.height <= doorY - Px(50)
                   \/ o.y >= doorY + DOOR_HEIGHT + Px(50)

\* a generated room in which some obstacles were placed and at least one
\* requested obstacle found no valid place
C21_Witness ==
    /\ FreshRoom
    /\ Len(obstacles) >= 2
    /\ Len(obstacles) < NumObstacles(currentRound)

\* C22 (obstacle spacing): in every room as generated, the centres of any
\* two obstacles are at least 100 + (w1 + h1) / 4 + (w2 + h2) / 4 px apart
\* (compared as squares, with coordinates doubled and the bound times 4).
C22_ObstacleSpacing ==
    FreshRoom =>
        \A i \in 1..Len(obstacles) : \A j \in 1..Len(obstacles) :
            i # j =>
              LET a == obstacles[i]
                  b == obstacles[j]
                  ddx == (2 * a.x + a.width) - (2 * b.x + b.width)
                  ddy == (2 * a.y + a.height) - (2 * b.y + b.height)
                  min4 == 4 * Px(100) + (a.width + a.height)
                                      + (b.width + b.height)
              IN  4 * (ddx * ddx + ddy * ddy) >= min4 * min4

\* a generated room that holds ten obstacles
C22_Witness ==
    /\ FreshRoom
    /\ Len(obstacles) = MAX_OBSTACLES
    /\ \E i \in 1..Len(obstacles) : obstacles[i].y > ROOM_TOP + Px(300)

\* C23 (bounded rejection sampling): whenever a room is about to be
\* generated (before initGame, or in Won with the round advance due), the
\* generation yields, for every draw, an unpaused Active room of the round;
\* every obstacle of the room comes from one of the first 100 attempts of a
\* requested obstacle and every portal from one of the first 80 attempts of
\* a requested portal; a first obstacle whose first 100 attempts are all
\* invalid is left out and the room is the one generated for the remaining
\* obstacles; and the portals placed are exactly those with a valid attempt
\* among their first 80.
C23_BoundedSampling ==
    (playerStartX = 0 \/ (gameWon /\ \E tm \in timers : now >= tm.due)) =>
      LET round == IF gameWon THEN currentRound + 1 ELSE 1
          n == NumObstacles(round)
          m == NumFakeDoors(round)
      IN  \A gd \in GenSweep(round) :
            LET g == GenerateRandomRoom([St EXCEPT !.currentRound = round],
                                        now, gd)
                tries(i) == 1..Min(Len(gd.obstacles[i]), 100)
                fakeTries(i) == 1..Min(Len(gd.fakeDoors[i].att), 80)
                firstOk == {k \in tries(1) :
                               ObstacleValid(Candidate(gd.obstacles[1][k]), <<>>,
                                             SpawnX, SpawnY, g.doorX, g.doorY)}
                fakeOk == {i \in 1..m : \E k \in fakeTries(i) :
                              FakeDoorValid(FakeCandidate(gd.fakeDoors[i].att[k]),
                                            g.obstacles, g.doorX, g.doorY)}
            IN  /\ Live(g) /\ g.currentRound = round /\ g.timers = {}
                /\ Len(g.obstacles) <= n
                /\ \A j \in 1..Len(g.obstacles) :
                      \E i \in 1..n : \E k \in tries(i) :
                         g.obstacles[j] = Candidate(gd.obstacles[i][k])
                /\ IF firstOk = {}
                   THEN g.obstacles = PlaceObstacles(2, n, gd.obstacles, <<>>,
                                                     SpawnX, SpawnY, g.doorY)
                   ELSE \E k \in firstOk :
                           /\ \A j \in firstOk : k <= j
                           /\ g.obstacles[1] = Candidate(gd.obstacles[1][k])
                /\ Len(g.fakeDoors) = Cardinality(fakeOk)
                /\ \A j \in 1..Len(g.fakeDoors) :
                      \E i \in fakeOk : \E k \in fakeTries(i) :
                         LET f == FakeCandidate(gd.fakeDoors[i].att[k])
                         IN  g.fakeDoors[j].x = f.x /\ g.fakeDoors[j].y = f.y

\* a room of round 4 whose first obstacle and first portal exhausted their
\* attempts: the three other obstacles and the other portal are in place
C23_Witness ==
    /\ FreshRoom
    /\ currentRound = 4
    /\ Len(obstacles) = 3
    /\ obstacles[1] = Candidate(GridStream[1])
    /\ Len(fakeDoors) = 1
    /\ doorY = DoorYFor(500)

\* C24 (state after generation): a step that regenerates the room (the
\* round advance out of Won, the restart out of Lost) ends in an unpaused
\* Active state with the door locked, no shield, normal controls, the
\* player at the spawn point, roundStartTime and lastAutoReverseTime equal
\* to the current time, no timer pending, and obstacle and portal
\* collections that are those of a generation from empty collections (for
\* some draws), whatever the collections held before; initGame produces
\* such a state for every draw as well.
C24_AfterGeneration ==
    /\ []((now = 0 /\ frames = 0) =>
            \A gd \in GenDraws(1) :
               LET g == GenerateRandomRoom([Declared EXCEPT !.currentRound = 1],
                                           now, gd)
               IN  /\ Live(g) /\ ~g.doorUnlocked /\ ~g.shieldActive
                   /\ ~g.reversedControls
                   /\ g.playerX = SpawnX /\ g.playerY = SpawnY
                   /\ g.roundStartTime = now /\ g.lastAutoReverseTime = now)
    /\ [][((gameWon /\ ~gameWon') \/ (gameLost /\ ~gameLost')) =>
            /\ ~paused' /\ ~gameWon' /\ ~gameLost'
            /\ ~doorUnlocked'
            /\ ~shieldActive'
            /\ ~reversedControls'
            /\ playerX' = SpawnX /\ playerY' = SpawnY
            /\ playerStartX' = SpawnX /\ playerStartY' = SpawnY
            /\ now' = now
            /\ roundStartTime' = now /\ lastAutoReverseTime' = now
            /\ pauseStartTime' = 0
            /\ timers' = {} /\ nextRoundTimeoutId' = NULL
            /\ currentRound' = IF gameWon THEN currentRound + 1 ELSE 1
            /\ \E od \in ObstacleDraws(NumObstacles(currentRound')) :
                  obstacles' = PlaceObstacles(1, NumObstacles(currentRound'), od,
                                              <<>>, SpawnX, SpawnY, doorY')
            /\ \E fd \in [1..NumFakeDoors(currentRound') -> FakeStreams] :
                  fakeDoors' = PlaceFakeDoors(1, NumFakeDoors(currentRound'), fd,
                                              <<>>, obstacles', doorY')]_vars

\* round 3 has just been generated after a win of round 2
C24_Witness ==
    /\ currentRound = 3
    /\ frames = 0
    /\ Live(St)
    /\ ~shieldActive
    /\ roundStartTime = now
    /\ now > 0
    /\ Len(obstacles) > 0
    /\ Len(fakeDoors) > 0

\* C25 (decoy portals): round 1 requests no portal; from round 2 on the
\* number requested does not decrease with the round and is at most 3; in
\* every room as generated there are at most that many portals, each inside
\* the room in its right half, disjoint from the door box inflated by 40 px
\* and from the box of every obstacle inflated by 20 px, with the effect
\* teleport or shield.
C25_DecoyPortals ==
    /\ NumFakeDoors(1) = 0
    /\ \A r \in 2..MaxGenRound :
          /\ NumFakeDoors(r) \in 1..3
          /\ NumFakeDoors(r) <= NumFakeDoors(r + 1)
    /\ FreshRoom =>
          /\ Len(fakeDoors) <= NumFakeDoors(currentRound)
          /\ \A i \in 1..Len(fakeDoors) :
                LET f == fakeDoors[i]
                IN  /\ f.effect \in {"teleport", "shield"}
                    /\ f.x >= ROOM_LEFT + ROOM_WIDTH \div 2
                    /\ f.x + f.width <= ROOM_LEFT + ROOM_WIDTH
                    /\ f.y >= ROOM_TOP
                    /\ f.y + f.height <= ROOM_TOP + ROOM_HEIGHT
                    /\ \/ f.x + f.width <= doorX - Px(40)
                       \/ f.x >= doorX + DOOR_WIDTH + Px(40)
                       \/ f.y + f.height <= doorY - Px(40)
                       \/ f.y >= doorY + DOOR_HEIGHT + Px(40)
                    /\ \A j \in 1..Len(obstacles) :
                          LET o == obstacles[j]
                          IN  \/ f.x + f.width <= o.x - Px(20)
                              \/ f.x >= o.x + o.width + Px(20)
                              \/ f.y + f.height <= o.y - Px(20)
                              \/ f.y >= o.y + o.height + Px(20)

\* a generated room with three shield portals and obstacles
C25_Witness ==
    /\ FreshRoom
    /\ Len(fakeDoors) = 3
    /\ Len(obstacles) >= 2
    /\ \A i \in 1..Len(fakeDoors) : fakeDoors[i].effect = "shield"


C27_HeldMatchesKeyboard ==
    [][(Live(St) /\ frames' = frames + 1) => keys = pressed]_vars

\* C28: holding a key delivers one keydown followed by auto-repeat keydowns.
\* In every reachable state an auto-repeat keydown of any key leaves the
\* state as it is, also right after the first keydown of that key; the first
\* keydown of the reverse key flips reversedControls once when the game is
\* not Lost and restarts it in round 1 when it is Lost, and the first keydown
\* of the pause key toggles paused once during an active round.
C28_RepeatIgnored ==
    \A key \in InputKeys :
        LET first == HandleKeyDown(St, now, key, FALSE, NoDraws)
            again == HandleKeyDown(first, now, key, TRUE, NoDraws)
        IN  /\ HandleKeyDown(St, now, key, TRUE, NoDraws) = St
            /\ again = first
            /\ HandleKeyDown(again, now, key, TRUE, NoDraws) = first
            /\ (key = "r" /\ ~paused /\ ~gameLost) =>
                  /\ first.reversedControls = ~reversedControls
                  /\ first.cues = <<"reverse">>
            /\ (key = "r" /\ ~paused /\ gameLost) =>
                  /\ Live(first)
                  /\ first.currentRound = 1
                  /\ ~first.reversedControls
            /\ (key = "escape" /\ ~gameWon /\ ~gameLost) =>
                  first.paused = ~paused

\* the reverse key was pressed in a frame-less room and the game then paused:
\* the flip of that one keydown is still in force
C28_Witness ==
    /\ reversedControls
    /\ paused
    /\ frames = 0
    /\ now = 0
    /\ playerX = playerStartX
    /\ ~shieldActive

C31_ReversedBeforeUnlock ==
    [][(~doorUnlocked /\ doorUnlocked') =>
          lastAutoReverseTime' > roundStartTime']_vars

\* C32: in a frame of an active round in which, after the player and the
\* obstacles have moved, the player overlaps an obstacle with the shield
\* inactive and also overlaps a decoy portal or the unlocked door, the frame
\* ends Lost: the player stays where updatePlayer put it, no shield is
\* granted, Won is not set and no round advance is scheduled.
C32_ObstaclePrecedence ==
    [][\A r \in TickDelayDraws : \A md \in TickMoveDraws :
          LET s4 == BeforeObstacleCheck(St, now, r, md)
          IN  (/\ Live(St) /\ frames' = frames + 1
               /\ TickWith(r, md)
               /\ FirstOverlap(s4, s4.obstacles) # 0
               /\ ~shieldActive
               /\ \/ FirstOverlap(s4, s4.fakeDoors) # 0
                  \/ PlayerAtDoor(s4) /\ s4.doorUnlocked)
                 => /\ gameLost'
                    /\ playerX' = s4.playerX
                    /\ playerY' = s4.playerY
                    /\ ~shieldActive'
                    /\ ~gameWon'
                    /\ timers' = timers
                    /\ nextRoundTimeoutId' = nextRoundTimeoutId]_vars

\* a frame ended Lost with the player standing in a decoy portal, away from
\* the spawn point and without a shield
C32_Witness ==
    /\ gameLost
    /\ frames > 0
    /\ ~shieldActive
    /\ FirstOverlap(St, fakeDoors) # 0
    /\ FirstOverlap(St, obstacles) # 0
    /\ playerX # playerStartX

\* C33 as stated: in every room as generated every obstacle is at least 100 px
\* from the player start box, and any two obstacles have at least 100 px
\* between the edges of their boxes (the distance between the two rectangles,
\* compared as squares).
C33_EdgeSpacing ==
    FreshRoom =>
        /\ \A i \in 1..Len(obstacles) :
              ~OverlapsPlayerStart(obstacles[i], playerStartX, playerStartY)
        /\ \A i \in 1..Len(obstacles) : \A j \in 1..Len(obstacles) :
              i # j =>
                LET a == obstacles[i]
                    b == obstacles[j]
                    gx == Max(0, Max(b.x - (a.x + a.width), a.x - (b.x + b.width)))
                    gy == Max(0, Max(b.y - (a.y + a.height), a.y - (b.y + b.height)))
                IN  gx * gx + gy * gy >= OBSTACLE_SPACING * OBSTACLE_SPACING

\* C34 as stated: in every paused state the time left to the unlock that
\* drawUI shows is the one it showed when the pause began.
C34_PausedRemainingFrozen ==
    (paused /\ ~doorUnlocked) =>
        RemainingToUnlock(St, now) = Max(0, pauseMark.unlock)

\* C35 (single chain of frames): the game loop is started exactly once, by
\* the handler that counts the last of the five sprites, loaded or failed:
\* no frame is requested while a sprite is still loading, one is pending from
\* the moment every sprite has loaded or failed, and at no time more than one
\* frame is pending; the number of pending frames changes only in that
\* handler, a frame that runs leaving exactly its successor pending.
C35_SingleChain ==
    /\ [](/\ pendingFrames <= 1
          /\ spritesLoaded = Cardinality({n \in DOMAIN sprites : sprites[n] # "loading"})
          /\ Cardinality(DOMAIN sprites) = 5
          /\ (pendingFrames = 1) <=> (\A n \in DOMAIN sprites : sprites[n] # "loading")
          /\ (pendingFrames = 0) => (frames = 0 /\ playerStartX = 0))
    /\ [][pendingFrames' # pendingFrames =>
            /\ pendingFrames = 0 /\ pendingFrames' = 1
            /\ spritesLoaded' = Cardinality(DOMAIN sprites)
            /\ spritesLoaded = spritesLoaded' - 1
            /\ playerStartX' = SpawnX /\ currentRound' = 1]_vars
    /\ [][frames' # frames => pendingFrames' = 1]_vars

\* the game runs: some sprites loaded and one failed, the loop was started
\* and a later frame has run
C35_Witness ==
    /\ sprites["wall"] = "failed"
    /\ sprites["player"] = "loaded"
    /\ spritesLoaded = 5
    /\ pendingFrames = 1
    /\ frames = 2
    /\ now > 0

C37_AdvancePendingIffWon ==
    /\ gameWon <=> nextRoundTimeoutId # NULL
    /\ gameWon <=> \E tm \in timers : tm.id = nextRoundTimeoutId

\* a later round is Won with its own advance pending: the handle of the
\* round before was cleared when its callback ran
C37_Witness ==
    /\ gameWon
    /\ currentRound > 1
    /\ nextRoundTimeoutId # NULL
    /\ \E tm \in timers : tm.round = currentRound /\ now < tm.due

\* C38 (no shield in Lost): in every reachable state Lost implies that the
\* shield is inactive.  The state becomes Lost only in a frame of an Active
\* round that began with the shield off, and the player then overlaps an
\* obstacle; a step that stays in Lost, a frame with the player on a shield
\* portal among them, does not grant the shield.
C38_LostWithoutShield ==
    /\ [](gameLost => ~shieldActive)
    /\ [][/\ (~gameLost /\ gameLost') =>
                /\ Live(St) /\ frames' = frames + 1
                /\ ~shieldActive /\ ~shieldActive'
                /\ FirstOverlap(St', obstacles') # 0
          /\ (gameLost /\ gameLost') => ~shieldActive']_vars

\* the round was lost on an obstacle with the player's box on a shield
\* portal as well: the portal has granted nothing
C38_Witness ==
    /\ gameLost
    /\ ~shieldActive
    /\ FirstOverlap(St, obstacles) # 0
    /\ \E j \in 1..Len(fakeDoors) :
          /\ fakeDoors[j].effect = "shield"
          /\ PlayerOverlaps(playerX, playerY, fakeDoors[j])

\* C39 (the obstacle collection never grows within a round): a step that
\* does not regenerate the room changes the number of obstacles only by
\* taking exactly one away, in a frame of an Active round that began with
\* the shield active and at whose obstacle check the player overlaps an
\* obstacle; a frame in which obstacles drift or teleport or in which the
\* player touches a decoy portal, a pause toggle, a manual reversal and any
\* other keyboard event leave the number as it is.
C39_ObstacleCount ==
    [][LET regenerated == \/ gameWon /\ ~gameWon'
                          \/ gameLost /\ ~gameLost'
       IN  /\ ~regenerated => Len(obstacles') <= Len(obstacles)
           /\ (~regenerated /\ Len(obstacles') # Len(obstacles)) =>
                 /\ Len(obstacles') = Len(obstacles) - 1
                 /\ Live(St) /\ frames' = frames + 1
                 /\ shieldActive
           /\ (~regenerated /\ frames' = frames) =>
                 Len(obstacles') = Len(obstacles)
           /\ \A r \in TickDelayDraws : \A md \in TickMoveDraws :
                 LET m == BeforeObstacleCheck(St, now, r, md)
                 IN  (/\ Live(St) /\ frames' = frames + 1
                      /\ ~(m.shieldActive /\ FirstOverlap(m, m.obstacles) # 0)
                      /\ TickWith(r, md))
                         => Len(obstacles') = Len(obstacles)]_vars

\* the shield has taken one obstacle away in a frame in which the player
\* also stood on a shield portal: the round goes on, the player (not
\* teleported) still inside another obstacle and shielded again
C39_Witness ==
    /\ Live(St)
    /\ frames > 0
    /\ playerX # playerStartX
    /\ FirstOverlap(St, obstacles) # 0
    /\ shieldActive


\* C40 (a decoy portal never pre-empts a win): in every reachable state each
\* decoy portal lies at least FAKE_DOOR_MARGIN (40 px) from the real door
\* along the x axis or along the y axis, the margin is larger than
\* PLAYER_SIZE (32 px), and the player's box does not overlap a decoy portal
\* and the real door at the same time.
C40_PortalApartFromDoor ==
    /\ FAKE_DOOR_MARGIN > PLAYER_SIZE
    /\ \A j \in 1..Len(fakeDoors) :
          LET f == fakeDoors[j]
          IN  /\ \/ f.x + f.width <= doorX - FAKE_DOOR_MARGIN
                 \/ f.x >= doorX + DOOR_WIDTH + FAKE_DOOR_MARGIN
                 \/ f.y + f.height <= doorY - FAKE_DOOR_MARGIN
                 \/ f.y >= doorY + DOOR_HEIGHT + FAKE_DOOR_MARGIN
              /\ ~(PlayerOverlaps(playerX, playerY, f) /\ PlayerAtDoor(St))

\* the round is Won with the player on the door while decoy portals stand
\* in the room, one of them less than two player sizes from the door on
\* both axes
C40_Witness ==
    /\ gameWon
    /\ PlayerAtDoor(St)
    /\ \E j \in 1..Len(fakeDoors) :
          OverlapsMargin(fakeDoors[j].x, fakeDoors[j].y,
                         fakeDoors[j].width, fakeDoors[j].height,
                         doorX, doorY, DOOR_WIDTH, DOOR_HEIGHT, 2 * PLAYER_SIZE)
====
